---------------------------- MODULE Spec2Model ----------------------------
(***************************************************************************)
(* A model of the xacro document evaluator (src/src/xacro/__init__.py):    *)
(* the text lexer and evaluator, the scoped symbol table with lazy         *)
(* evaluation, macro definition and expansion, the include resolver and    *)
(* the tree walker eval_all.                                               *)
(*                                                                         *)
(* Texts are sequences of characters (one-character strings; an            *)
(* identifier or a file-name component that is longer than one character   *)
(* is one element, e.g. "load_yaml").  Python values are records with a    *)
(* type tag t and a payload v.  XML nodes are records with a kind k.       *)
(***************************************************************************)
EXTENDS Integers, Sequences, FiniteSets, TLC

(***************************************************************************)
(* Bounds of the model.                                                    *)
(***************************************************************************)
\* number of top-level nodes of the input document the walker is fed
MaxNodes == 3
\* the top-level nodes of a run that only defines and reads properties
MaxReads == 5
\* number of Table objects (scopes) one run may create
MaxScopes == 8
\* depth of the stack of nested evaluations (eval_all activations)
MaxDepth == 5
\* number of documents processed one after the other in one process
MaxRuns == 2
\* number of dollar signs in a row in an attribute text
MaxDollars == 4
\* the longest text given to the lexer
MaxLen == 4

(***************************************************************************)
(* Characters and strings.                                                 *)
(***************************************************************************)
Digits == <<"0", "1", "2", "3", "4", "5", "6", "7", "8", "9">>

IsDigit(c) == \E i \in 1..10 : Digits[i] = c

DigitVal(c) == (CHOOSE i \in 1..10 : Digits[i] = c) - 1

\* the characters str.isidentifier() accepts in the model's alphabet
IdentStart == {"a", "b", "c", "p", "q", "n", "s", "x", "y", "load_yaml"}

\* s[i..j], Python's s[i-1:j]
Sub(s, i, j) ==
    LET lo == IF i < 1 THEN 1 ELSE i
        hi == IF j > Len(s) THEN Len(s) ELSE j
    IN  IF hi < lo THEN <<>> ELSE SubSeq(s, lo, hi)

\* s[i:] for a 1-based i
From(s, i) == Sub(s, i, Len(s))

Has(s, c) == \E i \in 1..Len(s) : s[i] = c

\* first position >= i of a character of set C, or 0
RECURSIVE Find(_, _, _)
Find(s, i, C) ==
    IF i > Len(s) THEN 0
    ELSE IF s[i] \in C THEN i
    ELSE Find(s, i + 1, C)

\* last position of character c, or 0
RECURSIVE FindLast(_, _, _)
FindLast(s, i, c) ==
    IF i < 1 THEN 0
    ELSE IF s[i] = c THEN i
    ELSE FindLast(s, i - 1, c)

\* number of characters from position i on that are not in Stop
RunLen(s, i, Stop) ==
    LET j == Find(s, i, Stop)
    IN  IF i > Len(s) THEN 0
        ELSE IF j = 0 THEN Len(s) - i + 1
        ELSE j - i

\* number of leading characters equal to c
RECURSIVE Leading(_, _, _)
Leading(s, i, c) ==
    IF i > Len(s) \/ s[i] # c THEN i - 1 ELSE Leading(s, i + 1, c)

\* str.strip() for blanks
RECURSIVE Strip(_)
Strip(s) ==
    IF s = <<>> THEN s
    ELSE IF s[1] = " " THEN Strip(Tail(s))
    ELSE IF s[Len(s)] = " " THEN Strip(Sub(s, 1, Len(s) - 1))
    ELSE s

AllDigits(s) == Len(s) >= 1 /\ \A i \in 1..Len(s) : IsDigit(s[i])

RECURSIVE DigitsToNat(_)
DigitsToNat(s) ==
    IF s = <<>> THEN 0
    ELSE 10 * DigitsToNat(Sub(s, 1, Len(s) - 1)) + DigitVal(s[Len(s)])

RECURSIVE NatToDigits(_)
NatToDigits(n) ==
    IF n < 10 THEN <<Digits[n + 1]>>
    ELSE NatToDigits(n \div 10) \o <<Digits[(n % 10) + 1]>>

(***************************************************************************)
(* Python values.                                                          *)
(***************************************************************************)
IntV(n) == [t |-> "int", v |-> n]
StrV(s) == [t |-> "str", v |-> s]
BoolV(b) == [t |-> "bool", v |-> b]
\* a float literal i.f, kept as its integer part and its fraction digits
FloatV(i, f) == [t |-> "float", v |-> <<i, f>>]
\* a NameSpace object: the id of its table
NsV(id) == [t |-> "ns", v |-> id]
\* an XML element handle
NodeV(e) == [t |-> "node", v |-> e]
\* a function of the global symbols
FunV(f) == [t |-> "fun", v |-> f]
NoneV == [t |-> "none", v |-> 0]

IsStr(x) == x.t = "str"

\* digits grouped by single underscores, as int() and float() accept them
IsGrouped(u) ==
    /\ u # <<>>
    /\ \A i \in 1..Len(u) : IsDigit(u[i]) \/ u[i] = "_"
    /\ u[1] # "_" /\ u[Len(u)] # "_"
    /\ \A i \in 1..(Len(u) - 1) : ~(u[i] = "_" /\ u[i + 1] = "_")

\* the digits of a grouped number; any other text is left as it is
Ungroup(u) == IF IsGrouped(u) THEN SelectSeq(u, LAMBDA c : c # "_") ELSE u

\* the text without blanks around it and without its sign
Unsigned(s) ==
    LET u == Strip(s)
    IN  IF u # <<>> /\ u[1] \in {"+", "-"} THEN Tail(u) ELSE u

\* int(s) succeeds: blanks, an optional sign, digits
IntBody(s) == Ungroup(Unsigned(s))

IsIntText(s) == AllDigits(IntBody(s))

IntOfText(s) ==
    LET u == Strip(s)
        n == DigitsToNat(IntBody(s))
    IN  IF u[1] = "-" THEN 0 - n ELSE n

\* float(s) succeeds: digits, a point, digits (the forms of the alphabet)
IsFloatText(s) ==
    LET u == Unsigned(s)
        d == Find(u, 1, {"."})
    IN  /\ d > 0
        /\ Len(u) >= 2
        /\ \A i \in 1..Len(Ungroup(Sub(u, 1, d - 1))) : IsDigit(Ungroup(Sub(u, 1, d - 1))[i])
        /\ \A i \in 1..Len(Ungroup(From(u, d + 1))) : IsDigit(Ungroup(From(u, d + 1))[i])

RECURSIVE DropZeros(_)
DropZeros(f) ==
    IF f # <<>> /\ f[Len(f)] = "0" THEN DropZeros(Sub(f, 1, Len(f) - 1)) ELSE f

FloatOfText(s) ==
    LET u == Unsigned(s)
        d == Find(u, 1, {"."})
    IN  FloatV(DigitsToNat(Ungroup(Sub(u, 1, d - 1))), DropZeros(Ungroup(From(u, d + 1))))

\* unicode(value)
ToText(x) ==
    CASE x.t = "str" -> x.v
      [] x.t = "int" -> IF x.v < 0 THEN <<"-">> \o NatToDigits(0 - x.v)
                        ELSE NatToDigits(x.v)
      [] x.t = "bool" -> IF x.v THEN <<"T", "r", "u", "e">>
                         ELSE <<"F", "a", "l", "s", "e">>
      [] x.t = "float" -> NatToDigits(x.v[1]) \o <<".">>
                          \o (IF x.v[2] = <<>> THEN <<"0">> ELSE x.v[2])
      [] x.t = "none" -> <<"N", "o", "n", "e">>
      [] OTHER -> <<"<", x.t, ">">>

\* bool(value) of a value that is not a string
Truth(x) ==
    CASE x.t = "int" -> x.v # 0
      [] x.t = "bool" -> x.v
      [] x.t = "float" -> ~(x.v[1] = 0 /\ x.v[2] = <<>>)
      [] x.t = "none" -> FALSE
      [] OTHER -> TRUE

TrueTexts == {<<"t", "r", "u", "e">>, <<"T", "r", "u", "e">>}
FalseTexts == {<<"f", "a", "l", "s", "e">>, <<"F", "a", "l", "s", "e">>}

\* get_boolean_value raises
BooleanFails(x) ==
    IsStr(x) /\ x.v \notin TrueTexts /\ x.v \notin FalseTexts /\ ~IsIntText(x.v)

\* get_boolean_value's result, where it does not raise
BooleanValue(x) ==
    IF IsStr(x)
    THEN IF x.v \in TrueTexts THEN TRUE
         ELSE IF x.v \in FalseTexts THEN FALSE
         ELSE IntOfText(x.v) # 0
    ELSE Truth(x)

\* a variant of _eval_literal without the check for an underscore
EvalLiteralNumbers(x) ==
    IF ~IsStr(x) THEN x
    ELSE IF Len(x.v) >= 2 /\ x.v[1] = "'" /\ x.v[Len(x.v)] = "'"
         THEN StrV(Sub(x.v, 2, Len(x.v) - 1))
    ELSE IF IsIntText(x.v) THEN IntV(IntOfText(x.v))
    ELSE IF IsFloatText(x.v) THEN FloatOfText(x.v)
    ELSE IF ~BooleanFails(x) THEN BoolV(BooleanValue(x))
    ELSE x

\* Table._eval_literal: strip the quotes of a quoted string; keep a text
\* with an underscore; else try int, float, boolean in this order
EvalLiteral(x) ==
    IF ~IsStr(x) THEN x
    ELSE IF Len(x.v) >= 2 /\ x.v[1] = "'" /\ x.v[Len(x.v)] = "'"
         THEN StrV(Sub(x.v, 2, Len(x.v) - 1))
    ELSE IF Has(x.v, "_") THEN x
    ELSE IF IsIntText(x.v) THEN IntV(IntOfText(x.v))
    ELSE IF IsFloatText(x.v) THEN FloatOfText(x.v)
    ELSE IF ~BooleanFails(x) THEN BoolV(BooleanValue(x))
    ELSE x

(***************************************************************************)
(* The lexer.                                                              *)
(***************************************************************************)
\* QuickLexer rule ids, in the order of LEXER's keyword arguments
DOLLAR_DOLLAR_BRACE == 0
EXPR == 1
EXTENSION == 2
TEXT == 3

\* length of the match of rule i at the start of s, 0 when it does not match
MatchLen(i, s) ==
    CASE i = DOLLAR_DOLLAR_BRACE ->
            LET k == Leading(s, 1, "$")
            IN  IF k >= 2 /\ k < Len(s) /\ s[k + 1] \in {"{", "("}
                THEN k + 1 ELSE 0
      [] i = EXPR ->
            LET j == Find(s, 3, {"}"})
            IN  IF Len(s) >= 3 /\ s[1] = "$" /\ s[2] = "{" THEN j ELSE 0
      [] i = EXTENSION ->
            LET j == Find(s, 3, {")"})
            IN  IF Len(s) >= 3 /\ s[1] = "$" /\ s[2] = "(" THEN j ELSE 0
      [] i = TEXT ->
            IF s = <<>> THEN 0
            ELSE IF s[1] # "$" THEN RunLen(s, 1, {"$"})
            ELSE IF Len(s) >= 2 /\ s[2] \notin {"{", "(", "$"}
                 THEN 1 + RunLen(s, 2, {"{", "(", "$"})
            ELSE IF Len(s) = 1 THEN 1
            ELSE 0

\* a variant of the lexer's step that takes one character as TEXT where no
\* rule matches
FirstMatchLoose(s) ==
    IF MatchLen(DOLLAR_DOLLAR_BRACE, s) > 0
    THEN <<DOLLAR_DOLLAR_BRACE, MatchLen(DOLLAR_DOLLAR_BRACE, s)>>
    ELSE IF MatchLen(EXPR, s) > 0 THEN <<EXPR, MatchLen(EXPR, s)>>
    ELSE IF MatchLen(EXTENSION, s) > 0 THEN <<EXTENSION, MatchLen(EXTENSION, s)>>
    ELSE IF MatchLen(TEXT, s) > 0 THEN <<TEXT, MatchLen(TEXT, s)>>
    ELSE <<TEXT, 1>>

\* QuickLexer.next: the first rule that matches, as <<id, length>>;
\* <<-1, 0>> when none does (the lexer raises)
FirstMatch(s) ==
    IF MatchLen(DOLLAR_DOLLAR_BRACE, s) > 0
    THEN <<DOLLAR_DOLLAR_BRACE, MatchLen(DOLLAR_DOLLAR_BRACE, s)>>
    ELSE IF MatchLen(EXPR, s) > 0 THEN <<EXPR, MatchLen(EXPR, s)>>
    ELSE IF MatchLen(EXTENSION, s) > 0 THEN <<EXTENSION, MatchLen(EXTENSION, s)>>
    ELSE IF MatchLen(TEXT, s) > 0 THEN <<TEXT, MatchLen(TEXT, s)>>
    ELSE <<-1, 0>>

\* no token: QuickLexer.top is None
NoTop == <<-1, <<>>>>

\* QuickLexer(LEXER): str is empty and top is None; given, out and raised
\* note the text of lex(), the tokens next() has returned, and the
\* remainder named by the exception of next()
NewLexer ==
    [str |-> <<>>, top |-> NoTop, given |-> <<>>, out |-> <<>>,
     state |-> "new", raised |-> <<>>]

\* QuickLexer.next on the lexer object x: top is returned, and the first
\* rule that matches the rest of the text makes the new top
LexerNext(x) ==
    LET m == FirstMatch(x.str)
        out == IF x.top = NoTop THEN x.out ELSE Append(x.out, x.top)
    IN  IF x.str = <<>>
        THEN [x EXCEPT !.top = NoTop, !.out = out, !.state = "end"]
        ELSE IF m[1] = -1
             THEN [x EXCEPT !.top = NoTop, !.state = "raised", !.raised = x.str]
        ELSE [x EXCEPT !.top = <<m[1], Sub(x.str, 1, m[2])>>,
                       !.str = From(x.str, m[2] + 1),
                       !.out = out, !.state = "run"]

\* QuickLexer.lex
LexerLex(x, text) ==
    LexerNext([x EXCEPT !.str = text, !.top = NoTop, !.given = text,
                        !.out = <<>>, !.raised = <<>>])

(***************************************************************************)
(* Exceptions.  cls is the class of the exception object, exc the class of *)
(* the exception it wraps (XacroException.exc, "None" when it wraps none), *)
(* kind what went wrong and info the detail its message names.  A wrapper  *)
(* keeps kind and info: str(e) includes str(e.exc).                        *)
(***************************************************************************)
Err(cls, exc, kind, info) == [cls |-> cls, exc |-> exc, kind |-> kind, info |-> info]

NoErr == Err("None", "None", "none", <<>>)

\* raise XacroException(msg)
Xacro(kind, info) == Err("XacroException", "None", kind, info)

\* raise XacroException(exc=e, ...)
Wrap(e) == Err("XacroException", e.cls, e.kind, e.info)

(***************************************************************************)
(* XML nodes.  An optional attribute is <<>> (absent) or <<text>>.         *)
(***************************************************************************)
None == <<>>
Some(s) == <<s>>

\* an element that is no directive, with one attribute v and child nodes
Elem(tag, v, kids) == [k |-> "elem", tag |-> tag, v |-> v, kids |-> kids]

\* <xacro:property name= value= default= remove= scope= lazy_eval=/>
Property(name, value, default, remove, scope, lazy) ==
    [k |-> "property", name |-> name, value |-> value, default |-> default,
     remove |-> remove, scope |-> scope, lazy_eval |-> lazy, kids |-> <<>>]

\* <xacro:property name=> kids </xacro:property>: a block property
BlockProperty(name, kids) ==
    [k |-> "property", name |-> name, value |-> None, default |-> None,
     remove |-> None, scope |-> None, lazy_eval |-> None, kids |-> kids]

\* <xacro:macro name= params=> body </xacro:macro>
MacroDef(name, params, body) ==
    [k |-> "macro", name |-> name, params |-> params, body |-> body]

\* <xacro:NAME attrs> kids </xacro:NAME>; attrs is a sequence of <<name, text>>
Call(name, attrs, kids) == [k |-> "call", name |-> name, attrs |-> attrs, kids |-> kids]

\* <xacro:insert_block name=/>
Insert(name) == [k |-> "insert_block", name |-> name]

\* <xacro:include filename= ns= optional=/>
Include(filename, ns, optional) ==
    [k |-> "include", filename |-> filename, ns |-> ns, optional |-> optional]

\* <!-- data --> and a text node
Comment(data) == [k |-> "comment", data |-> data]
Text(data) == [k |-> "text", data |-> data]

\* <xacro:arg name= default=/>
Arg(name, default) == [k |-> "arg", name |-> name, default |-> default]

\* <xacro:if value=> kids </xacro:if>
If(value, kids) == [k |-> "cond", tag |-> "if", value |-> value, kids |-> kids]

\* <xacro:unless value=> kids </xacro:unless>
Unless(value, kids) == [k |-> "cond", tag |-> "unless", value |-> value, kids |-> kids]

\* the text ${e}
Ref(e) == <<"$", "{">> \o e \o <<"}">>

(***************************************************************************)
(* Tables: the symbol tables (class Table, class NameSpace) and the dict   *)
(* of the global symbols, which is table 1.  A table's parent is the id of *)
(* another table.                                                          *)
(***************************************************************************)
EmptyMap == [x \in {} |-> NoneV]

Put(f, key, val) == (key :> val) @@ f

Drop(f, key) == [x \in DOMAIN f \ {key} |-> f[x]]

Root == 1

\* create_global_symbols: the symbols of the global dict the model uses
GlobalSymbols == (<<"load_yaml">> :> FunV("load_yaml"))

RootDict ==
    [kind |-> "dict", parent |-> 0, d |-> GlobalSymbols,
     unevaluated |-> {}, recursive |-> <<>>]

\* Table.__init__ / NameSpace.__init__
NewTable(kind, parent) ==
    [kind |-> kind, parent |-> parent, d |-> EmptyMap,
     unevaluated |-> {}, recursive |-> <<>>]

IsTable(tabs, id) == tabs[id].kind \in {"Table", "NameSpace"}

\* list.remove(x): drop the first occurrence
RECURSIVE RemoveFirst(_, _)
RemoveFirst(s, x) ==
    IF s = <<>> THEN s
    ELSE IF Head(s) = x THEN Tail(s)
    ELSE <<Head(s)>> \o RemoveFirst(Tail(s), x)

InSeq(s, x) == \E i \in 1..Len(s) : s[i] = x

\* Table.__contains__ (dict.__contains__ for the global dict)
RECURSIVE Contains(_, _, _)
Contains(tabs, id, key) ==
    IF tabs[id].kind = "dict" THEN key \in DOMAIN tabs[id].d
    ELSE key \in DOMAIN tabs[id].d \/ Contains(tabs, tabs[id].parent, key)

\* Table.top
RECURSIVE Top(_, _)
Top(tabs, id) == IF tabs[id].parent = Root THEN id ELSE Top(tabs, tabs[id].parent)

(***************************************************************************)
(* The world an evaluation reads and changes: the tables, the file stack,  *)
(* the record of all includes and the substitution arguments.  An          *)
(* evaluation returns a result: ok, the value, the world it leaves (also   *)
(* when it raises) and the exception.                                      *)
(***************************************************************************)
World(tabs, fs, inc, args, launch) ==
    [tabs |-> tabs, fs |-> fs, inc |-> inc, args |-> args, launchfile |-> launch]

Ok(v, w) == [ok |-> TRUE, val |-> v, w |-> w, err |-> NoErr]

Fail(e, w) == [ok |-> FALSE, val |-> NoneV, w |-> w, err |-> e]

\* a variant of _setitem that never takes a key out of unevaluated
SetItemKeep(tabs, id, key, value, uneval) ==
    LET val == EvalLiteral(value)
        t == tabs[id]
    IN  [tabs EXCEPT ![id] =
            [t EXCEPT !.d = Put(t.d, key, val),
                      !.unevaluated =
                          IF uneval /\ IsStr(val) THEN t.unevaluated \cup {key}
                          ELSE t.unevaluated]]

\* Table._setitem
SetItem(tabs, id, key, value, uneval) ==
    LET val == EvalLiteral(value)
        t == tabs[id]
    IN  [tabs EXCEPT ![id] =
            [t EXCEPT !.d = Put(t.d, key, val),
                      !.unevaluated =
                          IF uneval /\ IsStr(val) THEN t.unevaluated \cup {key}
                          ELSE t.unevaluated \ {key}]]

\* a variant of __delitem__ that pops the key from the table itself only
DelItemLocal(tabs, id, key) ==
    IF tabs[id].kind = "dict" THEN tabs
    ELSE [tabs EXCEPT ![id].d = Drop(@, key)]

\* Table.__delitem__: pop the key from every table up to the root
RECURSIVE DelItem(_, _, _)
DelItem(tabs, id, key) ==
    IF id = Root THEN tabs
    ELSE DelItem([tabs EXCEPT ![id].d = Drop(tabs[id].d, key)], tabs[id].parent, key)

(***************************************************************************)
(* The file system at invocation time: a path maps to an XML document      *)
(* (the child nodes of its root element) or to a YAML value; a file that   *)
(* cannot be opened is missing or not readable.                            *)
(***************************************************************************)
Slash == "/"

\* os.path.isabs
IsAbs(p) == p # <<>> /\ p[1] = Slash

\* os.path.dirname
Dirname(p) ==
    LET i == FindLast(p, Len(p), Slash)
    IN  IF i = 0 THEN <<>> ELSE IF i = 1 THEN <<Slash>> ELSE Sub(p, 1, i - 1)

\* os.path.join of two parts
PathJoin(base, p) ==
    IF IsAbs(p) \/ base = <<>> THEN p
    ELSE IF base[Len(base)] = Slash THEN base \o p
    ELSE base \o <<Slash>> \o p

\* abs_filename_spec: relative to the directory of the file on top of the
\* file stack
AbsFilenameSpec(spec, fs) ==
    IF IsAbs(spec) THEN spec ELSE PathJoin(Dirname(fs[Len(fs)]), spec)

\* the directory of the input document, and a sub-directory of it
DirD == <<Slash, "d">>
DirS == <<Slash, "d", Slash, "s">>

InD(name) == DirD \o <<Slash>> \o name
InS(name) == DirS \o <<Slash>> \o name

\* the input document
TopFile == InD(<<"top">>)

XmlFile(readable, nodes) == [kind |-> "xml", readable |-> readable, nodes |-> nodes]
YamlFile(val) == [kind |-> "yaml", readable |-> TRUE, val |-> val]

\* the lazily bound property v = ${load_yaml('nf')}, whose file is missing
BadYamlText == Ref(<<"load_yaml", "(", "'", "nf", "'", ")">>)

\* the params attribute a b:=2 c:=^|3
ParamsM == <<"a", " ", "b", ":", "=", "2", " ", "c", ":", "=", "^", "|", "3">>

Files ==
    \* a document with one element
    (InD(<<"one">>) :> XmlFile(TRUE, <<Elem("e", <<"1">>, <<>>)>>))
    \* a library: a property and a macro that reads it
    @@ (InD(<<"lib">>) :> XmlFile(TRUE,
          <<Property(<<"x">>, Some(<<"7">>), None, None, None, None),
            MacroDef(<<"m">>, Some(<<"q">>),
                     <<Elem("o", Ref(<<"q">>), <<>>), Elem("l", Ref(<<"x">>), <<>>)>>)>>))
    \* a document whose property refers to a property of the including one
    @@ (InD(<<"cyc">>) :> XmlFile(TRUE,
          <<Property(<<"x">>, Some(Ref(<<"p">>)), None, None, None, None)>>))
    \* the macros of the scenarios, and the property b
    @@ (InD(<<"defs">>) :> XmlFile(TRUE,
          <<Property(<<"b">>, Some(<<"9">>), None, None, None, None),
            MacroDef(<<"m">>, Some(ParamsM), <<Elem("o", Ref(<<"a", "+", "b", "+", "c">>), <<>>)>>),
            MacroDef(<<"wrap">>, Some(<<"*", "*", "stuff">>), <<Insert(<<"stuff">>)>>),
            MacroDef(<<"f">>, Some(<<"c", ":", "=", "^">>), <<Elem("o", Ref(<<"c">>), <<>>)>>),
            MacroDef(<<"u">>, Some(<<"p">>),
                     <<Call(<<"m">>, <<<<<<"a">>, Ref(<<"p">>)>>>>, <<>>)>>)>>))
    \* a document in s/ that includes a missing file without optional
    @@ (InS(<<"in">>) :> XmlFile(TRUE,
          <<Elem("e", <<"2">>, <<>>),
            Include(<<"miss">>, None, None),
            Elem("e", <<"3">>, <<>>)>>))
    \* a document in s/ whose expression calls load_yaml on a missing file
    @@ (InS(<<"ym">>) :> XmlFile(TRUE,
          <<Elem("e", BadYamlText, <<>>), Elem("e", <<"4">>, <<>>)>>))
    \* a document in s/ that loads a YAML file and includes a sibling
    @@ (InS(<<"yo">>) :> XmlFile(TRUE,
          <<Elem("e", Ref(<<"load_yaml", "(", "'", "v", "'", ")">>), <<>>),
            Include(<<"k">>, None, Some(<<"t", "r", "u", "e">>))>>))
    @@ (InS(<<"k">>) :> XmlFile(TRUE, <<Elem("k", <<>>, <<>>)>>))
    @@ (InS(<<"v">>) :> YamlFile(IntV(7)))
    \* a macro whose body removes the property a, and one that removes and
    \* then reads it
    @@ (InD(<<"del">>) :> XmlFile(TRUE,
          <<MacroDef(<<"d">>, None,
                     <<Property(<<"a">>, None, None, Some(<<"t", "r", "u", "e">>), None, None)>>),
            MacroDef(<<"dr">>, None,
                     <<Property(<<"a">>, Some(<<"3">>), None, None, None, None),
                       Property(<<"a">>, None, None, Some(<<"t", "r", "u", "e">>), None, None),
                       Elem("r", Ref(<<"a">>), <<>>)>>)>>))
    \* a document that removes the property a of the including one
    @@ (InD(<<"dn">>) :> XmlFile(TRUE,
          <<Property(<<"a">>, None, None, Some(<<"t", "r", "u", "e">>), None, None)>>))
    \* macros that insert their block parameter twice
    @@ (InD(<<"blk">>) :> XmlFile(TRUE,
          <<MacroDef(<<"twice">>, Some(<<"*", "b">>), <<Insert(<<"b">>), Insert(<<"b">>)>>),
            MacroDef(<<"tw2">>, Some(<<"*", "*", "b">>), <<Insert(<<"b">>), Insert(<<"b">>)>>)>>))
    \* macros that bind in the parent scope, in the global scope and
    \* locally, and a call of the first
    @@ (InD(<<"scm">>) :> XmlFile(TRUE,
          <<MacroDef(<<"sp">>, None,
                     <<Property(<<"a">>, Some(<<"4">>), None, None, Some(<<"parent">>), None)>>),
            MacroDef(<<"sg">>, None,
                     <<Property(<<"load_yaml">>, Some(<<"6">>), None, None,
                                Some(<<"global">>), None)>>),
            MacroDef(<<"sl">>, None,
                     <<Property(<<"load_yaml">>, Some(<<"7">>), None, None, None, None),
                       Elem("r", Ref(<<"load_yaml">>), <<>>)>>),
            Call(<<"sp">>, <<>>, <<>>)>>))
    \* a document that binds in the parent scope
    @@ (InD(<<"scp">>) :> XmlFile(TRUE,
          <<Property(<<"c">>, Some(Ref(<<"1", "+", "1">>)), None, None,
                     Some(<<"parent">>), None)>>))
    \* a document that reads the property y of the including one
    @@ (InD(<<"ry">>) :> XmlFile(TRUE, <<Elem("r", Ref(<<"y">>), <<>>)>>))
    \* a document whose macro takes the property y of the calling scope as
    \* the default of its parameter
    @@ (InD(<<"fy">>) :> XmlFile(TRUE,
          <<MacroDef(<<"q">>, Some(<<"y", ":", "=", "^">>), <<Elem("o", Ref(<<"y">>), <<>>)>>),
            Call(<<"q">>, <<>>, <<>>)>>))
    \* a document that includes itself
    @@ (InD(<<"self">>) :> XmlFile(TRUE, <<Include(<<"self">>, None, None)>>))
    \* files a glob matches: g2 exists and cannot be read
    @@ (InD(<<"g", "1">>) :> XmlFile(TRUE, <<Elem("g", <<"1">>, <<>>)>>))
    @@ (InD(<<"g", "2">>) :> XmlFile(FALSE, <<>>))
    @@ (InD(<<"g", "3">>) :> XmlFile(TRUE, <<Elem("g", <<"3">>, <<>>)>>))

\* open(filename) succeeds
CanOpen(path) == path \in DOMAIN Files /\ Files[path].readable

(***************************************************************************)
(* The expression language of safe_eval: Python expressions of the forms   *)
(*   identifier | integer | float | 'text' | e + e | e.identifier | f(e)   *)
(***************************************************************************)
IsIdent(e) ==
    /\ Len(e) >= 1
    /\ e[1] \in IdentStart \cup {"_"}
    /\ \A i \in 2..Len(e) : e[i] \in IdentStart \cup {"_"} \/ IsDigit(e[i])

IsIntLit(e) == AllDigits(e) /\ (Len(e) > 1 => e[1] # "0")

IsFloatLit(e) == e # <<>> /\ e[1] \notin {"+", "-"} /\ IsFloatText(e)

IsQuoted(e) ==
    /\ Len(e) >= 2
    /\ e[1] = "'" /\ e[Len(e)] = "'"
    /\ \A i \in 2..(Len(e) - 1) : e[i] # "'"

\* number of occurrences of c in s[1..i]
RECURSIVE Count(_, _, _)
Count(s, i, c) ==
    IF i < 1 THEN 0 ELSE Count(s, i - 1, c) + (IF s[i] = c THEN 1 ELSE 0)

\* position i is outside every parenthesis and quote
TopLevel(e, i) ==
    /\ Count(e, i - 1, "(") = Count(e, i - 1, ")")
    /\ Count(e, i - 1, "'") % 2 = 0

\* the last top-level occurrence of c, or 0
LastTop(e, c) ==
    LET P == {i \in 1..Len(e) : e[i] = c /\ TopLevel(e, i)}
    IN  IF P = {} THEN 0 ELSE CHOOSE i \in P : \A j \in P : j <= i

IsCall(e) ==
    /\ Len(e) >= 3
    /\ e[Len(e)] = ")"
    /\ LET o == Find(e, 1, {"("})
       IN  o > 1 /\ IsIdent(Sub(e, 1, o - 1)) /\ TopLevel(e, Len(e) + 1)

\* compile(expr, "<expression>", "eval") succeeds
RECURSIVE PySyntax(_)
PySyntax(e0) ==
    LET e == Strip(e0)
        p == LastTop(e, "+")
        d == LastTop(e, ".")
    IN  IF e = <<>> THEN FALSE
        ELSE IF IsIdent(e) \/ IsIntLit(e) \/ IsFloatLit(e) \/ IsQuoted(e) THEN TRUE
        ELSE IF p > 0 THEN PySyntax(Sub(e, 1, p - 1)) /\ PySyntax(From(e, p + 1))
        ELSE IF IsCall(e)
             THEN PySyntax(Sub(e, Find(e, 1, {"("}) + 1, Len(e) - 1))
        ELSE IF d > 0 THEN PySyntax(Sub(e, 1, d - 1)) /\ IsIdent(From(e, d + 1))
        ELSE FALSE

\* code.co_names holds a name that starts with a double underscore
RECURSIVE InvalidNames(_)
InvalidNames(e0) ==
    LET e == Strip(e0)
        p == LastTop(e, "+")
        d == LastTop(e, ".")
    IN  IF IsIdent(e) THEN Len(e) >= 2 /\ e[1] = "_" /\ e[2] = "_"
        ELSE IF IsIntLit(e) \/ IsFloatLit(e) \/ IsQuoted(e) THEN FALSE
        ELSE IF p > 0 THEN InvalidNames(Sub(e, 1, p - 1)) \/ InvalidNames(From(e, p + 1))
        ELSE IF IsCall(e)
             THEN \/ InvalidNames(Sub(e, 1, Find(e, 1, {"("}) - 1))
                  \/ InvalidNames(Sub(e, Find(e, 1, {"("}) + 1, Len(e) - 1))
        ELSE InvalidNames(Sub(e, 1, d - 1)) \/ InvalidNames(From(e, d + 1))

\* the + of two values
PyAdd(a, b, w) ==
    IF a.t \in {"int", "bool"} /\ b.t \in {"int", "bool"}
    THEN Ok(IntV((IF a.t = "bool" THEN (IF a.v THEN 1 ELSE 0) ELSE a.v)
                 + (IF b.t = "bool" THEN (IF b.v THEN 1 ELSE 0) ELSE b.v)), w)
    ELSE IF a.t = "str" /\ b.t = "str" THEN Ok(StrV(a.v \o b.v), w)
    ELSE Fail(Err("TypeError", "None", "type", <<>>), w)

\* load_yaml: the file stack is extended while the file is loaded
LoadYamlPushPop(filename, w) ==
    LET w1 == [w EXCEPT !.fs = Append(w.fs, filename)]
    IN  [w1 EXCEPT !.fs = Sub(w1.fs, 1, Len(w1.fs) - 1),
                   !.inc = Append(w1.inc, filename)]

LoadYaml(fn, w) ==
    IF ~IsStr(fn) THEN Fail(Err("TypeError", "None", "type", <<>>), w)
    ELSE LET filename == AbsFilenameSpec(fn.v, w.fs)
         IN  IF ~CanOpen(filename)
             THEN Fail(Err("IOError", "None", "io", filename), w)
             ELSE IF Files[filename].kind # "yaml"
                  THEN Fail(Err("YAMLError", "None", "yaml", filename),
                            LoadYamlPushPop(filename, w))
             ELSE Ok(Files[filename].val, LoadYamlPushPop(filename, w))

\* calling a value
PyCall(f, arg, w) ==
    IF f.t = "fun" /\ f.v = "load_yaml" THEN LoadYaml(arg, w)
    ELSE Fail(Err("TypeError", "None", "type", <<>>), w)

\* eval_extension: $(cwd), and $(arg NAME) as roslaunch's resolve_args
\* answers it from substitution_args_context
EvalExtension(s, w) ==
    IF s = <<"cwd">> THEN Ok(StrV(DirD), w)
    ELSE IF Len(s) = 3 /\ s[1] = "arg" /\ s[2] = " " /\ <<s[3]>> \in DOMAIN w.args
         THEN Ok(StrV(w.args[<<s[3]>>]), w)
    ELSE Fail(Err("XacroException", "ArgException", "extension", s), w)

RECURSIVE GetItem(_, _, _)
RECURSIVE Resolve(_, _, _)
RECURSIVE EvalText(_, _, _)
RECURSIVE EvalLoop(_, _, _, _, _)
RECURSIVE PyEval(_, _, _)

\* NameSpace.__getattr__
GetAttr(obj, item, w) ==
    IF obj.t # "ns" THEN Fail(Err("AttributeError", "None", "attribute", item), w)
    ELSE LET r == GetItem(obj.v, item, w)
         IN  IF ~r.ok /\ r.err.cls = "KeyError"
             THEN Fail(Err("NameError", "None", "undefined", item), r.w)
             ELSE r

\* eval(code, globals): the value of a well-formed expression
PyEval(e0, id, w) ==
    LET e == Strip(e0)
        p == LastTop(e, "+")
        d == LastTop(e, ".")
        o == Find(e, 1, {"("})
    IN  IF IsIdent(e)
        THEN LET r == GetItem(id, e, w)
             IN  IF ~r.ok /\ r.err.cls = "KeyError"
                 THEN Fail(Err("NameError", "None", "undefined", e), r.w)
                 ELSE r
        ELSE IF IsIntLit(e) THEN Ok(IntV(DigitsToNat(e)), w)
        ELSE IF IsFloatLit(e) THEN Ok(FloatOfText(e), w)
        ELSE IF IsQuoted(e) THEN Ok(StrV(Sub(e, 2, Len(e) - 1)), w)
        ELSE IF p > 0
             THEN LET a == PyEval(Sub(e, 1, p - 1), id, w)
                  IN  IF ~a.ok THEN a
                      ELSE LET b == PyEval(From(e, p + 1), id, a.w)
                           IN  IF ~b.ok THEN b ELSE PyAdd(a.val, b.val, b.w)
        ELSE IF IsCall(e)
             THEN LET f == PyEval(Sub(e, 1, o - 1), id, w)
                  IN  IF ~f.ok THEN f
                      ELSE LET a == PyEval(Sub(e, o + 1, Len(e) - 1), id, f.w)
                           IN  IF ~a.ok THEN a ELSE PyCall(f.val, a.val, a.w)
        ELSE LET a == PyEval(Sub(e, 1, d - 1), id, w)
             IN  IF ~a.ok THEN a ELSE GetAttr(a.val, From(e, d + 1), a.w)

\* safe_eval
SafeEval(expr, id, w) ==
    IF ~IsStr(expr) THEN Fail(Err("AttributeError", "None", "attribute", <<>>), w)
    ELSE IF ~PySyntax(expr.v) THEN Fail(Err("SyntaxError", "None", "syntax", expr.v), w)
    ELSE IF InvalidNames(expr.v) THEN Fail(Xacro("invalid_name", expr.v), w)
    ELSE PyEval(expr.v, id, w)

\* eval_text.handle_expr: every exception is wrapped in a XacroException
HandleExpr(s, id, w) ==
    LET r1 == EvalText(s, id, w)
    IN  IF ~r1.ok THEN Fail(Wrap(r1.err), r1.w)
        ELSE LET r2 == SafeEval(r1.val, id, r1.w)
             IN  IF ~r2.ok THEN Fail(Wrap(r2.err), r2.w) ELSE r2

\* eval_text.handle_extension
HandleExtension(s, id, w) ==
    LET r1 == EvalText(s, id, w)
    IN  IF ~r1.ok THEN r1 ELSE EvalExtension(ToText(r1.val), r1.w)

\* a variant of the token evaluation that keeps every escaped dollar sign
TokenValueKeep(rule, tok, id, w) ==
    IF rule = EXPR THEN HandleExpr(Sub(tok, 3, Len(tok) - 1), id, w)
    ELSE IF rule = EXTENSION
         THEN IF w.launchfile THEN Ok(StrV(tok), w)
              ELSE HandleExtension(Sub(tok, 3, Len(tok) - 1), id, w)
    ELSE Ok(StrV(tok), w)

\* the value of one token in eval_text's loop
TokenValue(rule, tok, id, w) ==
    IF rule = EXPR THEN HandleExpr(Sub(tok, 3, Len(tok) - 1), id, w)
    ELSE IF rule = EXTENSION
         THEN IF w.launchfile THEN Ok(StrV(tok), w)
              ELSE HandleExtension(Sub(tok, 3, Len(tok) - 1), id, w)
    ELSE IF rule = TEXT THEN Ok(StrV(tok), w)
    ELSE Ok(StrV(Tail(tok)), w)

\* eval_text's loop: lex.next() lexes the following token (and raises on an
\* invalid remainder) before the current token is evaluated; val is the
\* list results
EvalLoop(m, s, id, w, results) ==
    LET tok == Sub(s, 1, m[2])
        rest == From(s, m[2] + 1)
        m2 == FirstMatch(rest)
    IN  IF rest # <<>> /\ m2[1] = -1 THEN Fail(Xacro("lexer", rest), w)
        ELSE LET r == TokenValue(m[1], tok, id, w)
             IN  IF ~r.ok THEN r
                 ELSE IF rest = <<>> THEN Ok(Append(results, r.val), r.w)
                 ELSE EvalLoop(m2, rest, id, r.w, Append(results, r.val))

\* a variant of the join that separates the results by a blank
RECURSIVE JoinTextsSpaced(_)
JoinTextsSpaced(vals) ==
    IF vals = <<>> THEN <<>>
    ELSE IF Len(vals) = 1 THEN ToText(Head(vals))
    ELSE ToText(Head(vals)) \o <<" ">> \o JoinTextsSpaced(Tail(vals))

RECURSIVE JoinTexts(_)
JoinTexts(vals) ==
    IF vals = <<>> THEN <<>> ELSE ToText(Head(vals)) \o JoinTexts(Tail(vals))

\* a variant of eval_text that joins the results to a string in every case
EvalTextJoined(text, id, w) ==
    IF text = <<>> THEN Ok(StrV(<<>>), w)
    ELSE IF FirstMatch(text)[1] = -1 THEN Fail(Xacro("lexer", text), w)
    ELSE LET r == EvalLoop(FirstMatch(text), text, id, w, <<>>)
         IN  IF ~r.ok THEN r ELSE Ok(StrV(JoinTexts(r.val)), r.w)

\* eval_text: a single result is returned as it is, typed; else the results
\* are joined to a string
EvalText(text, id, w) ==
    IF text = <<>> THEN Ok(StrV(<<>>), w)
    ELSE IF FirstMatch(text)[1] = -1 THEN Fail(Xacro("lexer", text), w)
    ELSE LET r == EvalLoop(FirstMatch(text), text, id, w, <<>>)
         IN  IF ~r.ok THEN r
             ELSE IF Len(r.val) = 1 THEN Ok(r.val[1], r.w)
             ELSE Ok(StrV(JoinTexts(r.val)), r.w)

\* a variant of _resolve_ whose error names the repeated property only
ResolveShortChain(id, key, w) ==
    LET t == w.tabs[id]
    IN  IF key \notin t.unevaluated THEN Ok(t.d[key], w)
        ELSE IF InSeq(t.recursive, key)
             THEN Fail(Xacro("circular", <<key>>), w)
        ELSE LET w1 == [w EXCEPT !.tabs[id].recursive = Append(t.recursive, key)]
                 r == IF IsStr(t.d[key]) THEN EvalText(t.d[key].v, id, w1)
                      ELSE Fail(Err("TypeError", "None", "type", <<>>), w1)
             IN  IF ~r.ok THEN r
                 ELSE LET t2 == r.w.tabs[id]
                          val == EvalLiteral(r.val)
                      IN  Ok(val, [r.w EXCEPT !.tabs[id] =
                                     [t2 EXCEPT !.d = Put(t2.d, key, val),
                                                !.unevaluated = t2.unevaluated \ {key},
                                                !.recursive = RemoveFirst(t2.recursive, key)]])

\* a variant of _resolve_ that stores the result without _eval_literal
ResolveNoCoerce(id, key, w) ==
    LET t == w.tabs[id]
    IN  IF key \notin t.unevaluated THEN Ok(t.d[key], w)
        ELSE IF InSeq(t.recursive, key)
             THEN Fail(Xacro("circular", Append(t.recursive, key)), w)
        ELSE LET w1 == [w EXCEPT !.tabs[id].recursive = Append(t.recursive, key)]
                 r == IF IsStr(t.d[key]) THEN EvalText(t.d[key].v, id, w1)
                      ELSE Fail(Err("TypeError", "None", "type", <<>>), w1)
             IN  IF ~r.ok THEN r
                 ELSE LET t2 == r.w.tabs[id]
                      IN  Ok(r.val, [r.w EXCEPT !.tabs[id] =
                                       [t2 EXCEPT !.d = Put(t2.d, key, r.val),
                                                  !.unevaluated = t2.unevaluated \ {key},
                                                  !.recursive = RemoveFirst(t2.recursive, key)]])

\* a variant of _resolve_ that leaves the key in the unevaluated set
ResolveNoStore(id, key, w) ==
    LET t == w.tabs[id]
    IN  IF key \notin t.unevaluated THEN Ok(t.d[key], w)
        ELSE IF InSeq(t.recursive, key)
             THEN Fail(Xacro("circular", Append(t.recursive, key)), w)
        ELSE LET w1 == [w EXCEPT !.tabs[id].recursive = Append(t.recursive, key)]
                 r == IF IsStr(t.d[key]) THEN EvalText(t.d[key].v, id, w1)
                      ELSE Fail(Err("TypeError", "None", "type", <<>>), w1)
             IN  IF ~r.ok THEN r
                 ELSE LET t2 == r.w.tabs[id]
                      IN  Ok(EvalLiteral(r.val),
                             [r.w EXCEPT !.tabs[id] =
                                [t2 EXCEPT !.recursive = RemoveFirst(t2.recursive, key)]])

\* Table._resolve_: the lazy evaluation of a key the table holds
Resolve(id, key, w) ==
    LET t == w.tabs[id]
    IN  IF key \notin t.unevaluated THEN Ok(t.d[key], w)
        ELSE IF InSeq(t.recursive, key)
             THEN Fail(Xacro("circular", Append(t.recursive, key)), w)
        ELSE LET w1 == [w EXCEPT !.tabs[id].recursive = Append(t.recursive, key)]
                 r == IF IsStr(t.d[key]) THEN EvalText(t.d[key].v, id, w1)
                      ELSE Fail(Err("TypeError", "None", "type", <<>>), w1)
             IN  IF ~r.ok THEN r
                 ELSE LET t2 == r.w.tabs[id]
                          val == EvalLiteral(r.val)
                          w2 == [r.w EXCEPT !.tabs[id] =
                                   [t2 EXCEPT !.d = Put(t2.d, key, val),
                                              !.unevaluated = t2.unevaluated \ {key},
                                              !.recursive = RemoveFirst(t2.recursive, key)]]
                      IN  Ok(val, w2)

\* Table.__getitem__ (dict.__getitem__ for the global dict)
GetItem(id, key, w) ==
    LET t == w.tabs[id]
    IN  IF key \in DOMAIN t.d
        THEN (IF t.kind = "dict" THEN Ok(t.d[key], w) ELSE Resolve(id, key, w))
        ELSE IF t.kind = "dict" THEN Fail(Err("KeyError", "None", "key", key), w)
        ELSE GetItem(t.parent, key, w)

(***************************************************************************)
(* The state of one document processing.                                   *)
(*                                                                         *)
(* The walker eval_all is a stack of frames, one per active eval_all call: *)
(* todo holds the child nodes still to be visited, out the nodes that      *)
(* replace the visited ones, symbols and macros the tables of the call.    *)
(* The input document's top-level nodes are not held: the walker meets     *)
(* any node of the run's pool next, MaxNodes times at most.                *)
(***************************************************************************)
VARIABLES
    launchfile,      \* the global launchfile: main sets it when the mappings
                     \* hold parse_launchfiles
    tabs,            \* the symbol tables; tabs[Root] is the global dict
    mtabs,           \* the macro tables
    filestack,       \* the global filestack
    macrostack,      \* the global macrostack (macro names)
    all_includes,    \* the global all_includes
    subst_args,      \* substitution_args_context['arg']
    mappings,        \* the dict object opts.mappings, which process_doc installs
    cmdline,         \* history: the mappings as the command line gave them
    run,             \* history: the number of the document being processed
    frames,          \* the active eval_all calls, outermost first
    status,          \* "run", "done" (process_doc returned) or "failed"
    err,             \* the exception that reached the caller of process_doc
    fed,             \* how many top-level nodes the walker has met
    defs,            \* history: per lazily stored property, its eager value
    last,            \* history: the handler that ran last, and what it did
    lex              \* a QuickLexer object: str, top, and what it was given

\* the variables of the walker
walker == <<launchfile, tabs, mtabs, filestack, macrostack, all_includes,
            subst_args, mappings, cmdline, run, frames, status, err, fed, defs, last>>

vars == <<walker, lex>>

\* the state as one record, with what the running handler notes for `last`
St ==
    [tabs |-> tabs, mtabs |-> mtabs, fs |-> filestack, ms |-> macrostack,
     inc |-> all_includes, args |-> subst_args, launchfile |-> launchfile,
     frames |-> frames,
     status |-> status, err |-> err, defs |-> defs,
     raised |-> NoErr, caught |-> "none", val |-> NoneV, done |-> FALSE]

WorldOf(m) == World(m.tabs, m.fs, m.inc, m.args, m.launchfile)

SetWorld(m, w) == [m EXCEPT !.tabs = w.tabs, !.fs = w.fs, !.inc = w.inc]

\* a call of eval_all: eval_comments is its local flag; seen is history,
\* what the call has met since the last element: "on" and "off" for the
\* pragma comments, "comment", "space" for a text node that is blank after
\* its evaluation, "text" for any other text node
Frame(kind, todo, symbols, macros, node, aux) ==
    [kind |-> kind, todo |-> todo, out |-> <<>>, symbols |-> symbols,
     macros |-> macros, node |-> node, aux |-> aux,
     eval_comments |-> FALSE, seen |-> <<>>]

NoAux == [none |-> TRUE]

TopF(m) == m.frames[Len(m.frames)]

Pop(s) == Sub(s, 1, Len(s) - 1)

\* replace_node: the nodes take the place of the visited node
PushOut(m, nodes) == [m EXCEPT !.frames[Len(m.frames)].out = @ \o nodes]

(***************************************************************************)
(* process_include's loop and the way of an exception.                     *)
(***************************************************************************)
\* the innermost frame of an include that catches e: the except clause of
\* process_include, around parse and the recursive call of eval_all
Catchers(m, e) ==
    {j \in 1..Len(m.frames) :
        /\ m.frames[j].kind = "include"
        /\ e.cls = "XacroException" /\ e.exc = "IOError"
        /\ m.frames[j].aux.optional}

Innermost(J) == CHOOSE j \in J : \A i \in J : i <= j

RECURSIVE IncludeLoop(_, _, _)
RECURSIVE Raise(_, _)

\* an exception leaves the running handler: the innermost process_include
\* that catches it continues with its next file; else it reaches the
\* caller of process_doc
Raise(m, e) ==
    LET J == Catchers(m, e)
        m1 == [m EXCEPT !.raised = IF @ = NoErr THEN e ELSE @]
    IN  IF J = {}
        THEN [m1 EXCEPT !.status = "failed", !.err = e]
        ELSE LET f == m.frames[Innermost(J)]
             IN  IncludeLoop([m1 EXCEPT !.frames = Sub(m.frames, 1, Innermost(J) - 1),
                                       !.caught = "outer"],
                             f, f.aux.rest)

\* parse(None, filename): a file that cannot be opened pops the file stack
\* and raises a XacroException that wraps the IOError
ParseFails(filename) == ~CanOpen(filename)

RECURSIVE IncludeLoopBreak(_, _, _)
\* a variant of the loop that ends at the first file it cannot open
IncludeLoopBreak(m, f, files) ==
    IF files = <<>>
    THEN [PushOut(m, f.aux.included) EXCEPT !.done = TRUE]
    ELSE LET filename == Head(files)
             m1 == [m EXCEPT !.inc = Append(@, filename),
                             !.fs = Append(@, filename)]
         IN  IF ParseFails(filename)
             THEN LET m2 == [m1 EXCEPT !.fs = Pop(@),
                                       !.raised = IF @ = NoErr
                                                  THEN Err("XacroException", "IOError", "io", filename)
                                                  ELSE @]
                  IN  IF f.aux.optional
                      THEN IncludeLoopBreak([m2 EXCEPT !.caught = IF @ = "none" THEN "self" ELSE @],
                                            f, <<>>)
                      ELSE Raise(m2, Err("XacroException", "IOError", "io", filename))
             ELSE IF Files[filename].kind # "xml"
                  THEN Raise(m1, Err("ExpatError", "None", "parse", filename))
             ELSE [m1 EXCEPT !.frames =
                      Append(@, [f EXCEPT !.todo = Files[filename].nodes,
                                          !.out = <<>>,
                                          !.aux.rest = Tail(files),
                                          !.aux.file = filename])]

\* the for loop of process_include over the files still to include; the
\* frames of m end with the frame that holds the include directive.  f is
\* the frame of the directive's files.
IncludeLoop(m, f, files) ==
    IF files = <<>>
    THEN [PushOut(m, f.aux.included) EXCEPT !.done = TRUE]
    ELSE LET filename == Head(files)
             m1 == [m EXCEPT !.inc = Append(@, filename),
                             !.fs = Append(@, filename)]
         IN  IF ParseFails(filename)
             THEN LET m2 == [m1 EXCEPT !.fs = Pop(@),
                                       !.raised = IF @ = NoErr
                                                  THEN Err("XacroException", "IOError", "io", filename)
                                                  ELSE @]
                  IN  IF f.aux.optional
                      THEN IncludeLoop([m2 EXCEPT !.caught = IF @ = "none" THEN "self" ELSE @],
                                       f, Tail(files))
                      ELSE Raise(m2, Err("XacroException", "IOError", "io", filename))
             ELSE IF Files[filename].kind # "xml"
                  THEN Raise(m1, Err("ExpatError", "None", "parse", filename))
             ELSE [m1 EXCEPT !.frames =
                      Append(@, [f EXCEPT !.todo = Files[filename].nodes,
                                          !.out = <<>>,
                                          !.aux.rest = Tail(files),
                                          !.aux.file = filename])]

(***************************************************************************)
(* glob.glob and sorted for a pattern with one "*" in its last component.  *)
(***************************************************************************)
\* the characters of file names in code point order
CharOrder == <<"*", "/", "1", "2", "3", "cyc", "d", "defs", "g", "in", "k", "lib", "miss",
               "nf", "one", "s", "top", "v", "ym", "yo">>

CharCode(c) == CHOOSE i \in 1..Len(CharOrder) : CharOrder[i] = c

RECURSIVE PathLess(_, _)
PathLess(p, q) ==
    IF p = <<>> THEN q # <<>>
    ELSE IF q = <<>> THEN FALSE
    ELSE IF p[1] = q[1] THEN PathLess(Tail(p), Tail(q))
    ELSE CharCode(p[1]) < CharCode(q[1])

RECURSIVE SortPaths(_)
SortPaths(S) ==
    IF S = {} THEN <<>>
    ELSE LET p == CHOOSE x \in S : \A y \in S \ {x} : PathLess(x, y)
         IN  <<p>> \o SortPaths(S \ {p})

IsGlob(spec) == \E i \in 1..Len(spec) : spec[i] \in {"*", "[", "?"}

GlobMatches(path, pat) ==
    LET i == Find(pat, 1, {"*"})
        pre == Sub(pat, 1, i - 1)
        suf == From(pat, i + 1)
        n == Len(path)
    IN  /\ n >= Len(pre) + Len(suf)
        /\ Sub(path, 1, Len(pre)) = pre
        /\ Sub(path, n - Len(suf) + 1, n) = suf
        /\ ~Has(Sub(path, Len(pre) + 1, n - Len(suf)), Slash)

\* get_include_files, after the file name spec is evaluated
IncludeFiles(spec) ==
    IF IsGlob(spec)
    THEN SortPaths({path \in DOMAIN Files : GlobMatches(path, spec)})
    ELSE <<spec>>

(***************************************************************************)
(* grab_property                                                           *)
(***************************************************************************)
\* Python's `attr or text`
OptOr(o, text) == IF o = None \/ o[1] = <<>> THEN text ELSE o[1]

\* is_valid_name: the name parses as one Python identifier
IsValidName(name) == IsIdent(name)

\* what the history keeps for a lazily stored text: the value that binding
\* it eagerly, in the tables of the definition, stores (or that this raises)
EagerValue(text, table, w) ==
    LET r == EvalText(text, table, w)
    IN  IF r.ok THEN [ok |-> TRUE, val |-> EvalLiteral(r.val)]
        ELSE [ok |-> FALSE, val |-> NoneV]

RECURSIVE SkipNameSpaces(_, _)
SkipNameSpaces(tbs, id) ==
    IF tbs[id].kind = "NameSpace" THEN SkipNameSpaces(tbs, tbs[id].parent) ELSE id

\* the last lines of grab_property: choose the target table, evaluate a
\* value that is not lazy, store
StoreProperty(n, m, name, value, lazy0) ==
    LET table == TopF(m).symbols
        scope == OptOr(n.scope, <<>>)
        isGlobal == scope = <<"global">>
        isParent == scope = <<"parent">>
        lazy == lazy0 /\ ~isGlobal /\ ~isParent
        target == IF isGlobal THEN Top(m.tabs, table)
                  ELSE IF isParent
                       THEN (IF m.tabs[table].kind # "NameSpace"
                             THEN SkipNameSpaces(m.tabs, m.tabs[table].parent)
                             ELSE m.tabs[table].parent)
                  ELSE table
        rv == IF ~lazy /\ IsStr(value) THEN EvalText(value.v, table, WorldOf(m))
              ELSE Ok(value, WorldOf(m))
        m1 == SetWorld(m, rv.w)
    IN  IF ~rv.ok THEN Raise(m1, rv.err)
        \* a dict has no _setitem
        ELSE IF m1.tabs[target].kind = "dict"
             THEN Raise(m1, Err("AttributeError", "None", "attribute", <<"_setitem">>))
        ELSE [m1 EXCEPT !.tabs = SetItem(m1.tabs, target, name, rv.val, lazy),
                        !.defs = IF lazy /\ IsStr(value)
                                 THEN Put(Drop(@, <<target, name>>), <<target, name>>,
                                          EagerValue(value.v, table, WorldOf(m)))
                                 ELSE Drop(@, <<target, name>>)]

\* grab_property from the check of remove on
GrabProperty2(n, m, name) ==
    LET table == TopF(m).symbols
        rr == EvalText(OptOr(n.remove, <<"f", "a", "l", "s", "e">>), table, WorldOf(m))
        m1 == SetWorld(m, rr.w)
        remove == BooleanValue(rr.val)
        given == (IF n.value # None THEN 1 ELSE 0) + (IF n.default # None THEN 1 ELSE 0)
                 + (IF remove THEN 1 ELSE 0)
        rl == EvalText(OptOr(n.lazy_eval, <<"t", "r", "u", "e">>), table, WorldOf(m1))
        m2 == SetWorld(m1, rl.w)
    IN  IF ~rr.ok THEN Raise(m1, rr.err)
        ELSE IF BooleanFails(rr.val) THEN Raise(m1, Xacro("conditional", rr.val))
        ELSE IF given > 1 THEN Raise(m1, Xacro("exclusive", name))
        ELSE IF remove /\ Contains(m1.tabs, table, name)
             THEN [m1 EXCEPT !.tabs = DelItem(m1.tabs, table, name),
                             !.defs = [x \in {y \in DOMAIN @ : y[2] # name} |-> @[x]]]
        ELSE IF n.default # None /\ Contains(m1.tabs, table, name) THEN m1
        ELSE IF ~rl.ok THEN Raise(m2, rl.err)
        ELSE IF BooleanFails(rl.val) THEN Raise(m2, Xacro("conditional", rl.val))
        ELSE IF n.default # None
             THEN StoreProperty(n, m2, name, StrV(n.default[1]), BooleanValue(rl.val))
        ELSE IF n.value # None
             THEN StoreProperty(n, m2, name, StrV(n.value[1]), BooleanValue(rl.val))
        \* no value: the element itself is stored as the block **name
        ELSE StoreProperty(n, m2, <<"*", "*">> \o name, NodeV(n), BooleanValue(rl.val))

GrabProperty(n, m) ==
    LET table == TopF(m).symbols
        rn == EvalText(n.name, table, WorldOf(m))
        m1 == SetWorld(m, rn.w)
    IN  IF ~rn.ok THEN Raise(m1, rn.err)
        ELSE IF ~IsStr(rn.val) THEN Raise(m1, Err("TypeError", "None", "type", <<>>))
        ELSE IF ~IsValidName(rn.val.v) THEN Raise(m1, Xacro("property_name", rn.val.v))
        ELSE IF Sub(rn.val.v, 1, 2) = <<"_", "_">>
             THEN Raise(m1, Xacro("property_name", rn.val.v))
        ELSE GrabProperty2(n, m1, rn.val.v)

(***************************************************************************)
(* eval_all on an element that is no directive                             *)
(***************************************************************************)
\* the attribute is evaluated and set to the result's text; the children
\* are walked by a new call of eval_all
EvalElement(n, m) ==
    LET f == TopF(m)
        r == EvalText(n.v, f.symbols, WorldOf(m))
        m1 == SetWorld(m, r.w)
        e == Elem(n.tag, ToText(r.val), <<>>)
    IN  IF ~r.ok THEN Raise(m1, r.err)
        ELSE IF n.kids = <<>> THEN [PushOut(m1, <<e>>) EXCEPT !.val = r.val]
        ELSE [m1 EXCEPT !.val = r.val,
                        !.frames = Append(@, Frame("elem", n.kids, f.symbols, f.macros, e, NoAux))]

\* the walk over the element's children is over
ElementExit(m) ==
    LET f == TopF(m)
    IN  PushOut([m EXCEPT !.frames = Pop(@)], <<[f.node EXCEPT !.kids = f.out]>>)

(***************************************************************************)
(* eval_all on comments and text nodes                                     *)
(***************************************************************************)
\* "xacro:eval-comments" in data, "xacro:eval-comments:off" in data
IsPragma(data) == \E i \in 1..Len(data) : data[i] = "xacro:eval-comments"

IsPragmaOff(data) ==
    \E i \in 1..(Len(data) - 1) : data[i] = "xacro:eval-comments" /\ data[i + 1] = ":off"

\* not data.strip()
IsBlank(data) == \A i \in 1..Len(data) : data[i] \in {" ", "\n"}

Note(m, what) == [m EXCEPT !.frames[Len(m.frames)].seen = Append(@, what)]

\* a comment: a pragma sets the flag and is dropped; any other comment is
\* evaluated as text if the flag is set, and left as it is otherwise
EvalComment(n, m) ==
    LET f == TopF(m)
        r == EvalText(n.data, f.symbols, WorldOf(m))
        m1 == SetWorld(m, r.w)
    IN  IF IsPragma(n.data)
        THEN [Note(m, IF IsPragmaOff(n.data) THEN "off" ELSE "on")
                 EXCEPT !.frames[Len(m.frames)].eval_comments = ~IsPragmaOff(n.data)]
        ELSE IF ~f.eval_comments THEN Note(PushOut(m, <<n>>), "comment")
        ELSE IF ~r.ok THEN Raise(m1, r.err)
        ELSE Note(PushOut(m1, <<Comment(ToText(r.val))>>), "comment")

\* a variant of the text node that disables the evaluation of comments
\* also when the text is blank
EvalTextNodeResets(n, m) ==
    LET f == TopF(m)
        r == EvalText(n.data, f.symbols, WorldOf(m))
        m1 == SetWorld(m, r.w)
    IN  IF ~r.ok THEN Raise(m1, r.err)
        ELSE [Note(PushOut(m1, <<Text(ToText(r.val))>>),
                   IF IsBlank(ToText(r.val)) THEN "space" ELSE "text")
                 EXCEPT !.frames[Len(m.frames)].eval_comments = FALSE]

\* a text node: its data is evaluated; text that is not blank disables the
\* evaluation of comments
EvalTextNode(n, m) ==
    LET f == TopF(m)
        r == EvalText(n.data, f.symbols, WorldOf(m))
        m1 == SetWorld(m, r.w)
    IN  IF ~r.ok THEN Raise(m1, r.err)
        ELSE IF IsBlank(ToText(r.val))
             THEN Note(PushOut(m1, <<Text(ToText(r.val))>>), "space")
        ELSE [Note(PushOut(m1, <<Text(ToText(r.val))>>), "text")
                 EXCEPT !.frames[Len(m.frames)].eval_comments = FALSE]

(***************************************************************************)
(* eval_all on xacro:arg, xacro:if and xacro:unless                        *)
(***************************************************************************)
\* a variant of xacro:arg that sets the entry whether or not the context
\* holds the name
GrabArgAlways(n, m) ==
    LET r == EvalText(n.default, TopF(m).symbols, WorldOf(m))
        m1 == SetWorld(m, r.w)
    IN  IF ~r.ok THEN Raise(m1, r.err)
        ELSE [m1 EXCEPT !.args = Put(@, n.name, ToText(r.val))]

\* xacro:arg: a name that the context does not hold is set to the text of
\* the evaluated default; the element is removed
GrabArg(n, m) ==
    LET r == EvalText(n.default, TopF(m).symbols, WorldOf(m))
        m1 == SetWorld(m, r.w)
    IN  IF n.name \in DOMAIN m.args THEN m
        ELSE IF ~r.ok THEN Raise(m1, r.err)
        ELSE [m1 EXCEPT !.args = Put(@, n.name, ToText(r.val))]

\* a variant of the conditional that treats xacro:unless as xacro:if
ConditionalNoFlip(n, m) ==
    LET f == TopF(m)
        r == EvalText(n.value, f.symbols, WorldOf(m))
        m1 == SetWorld(m, r.w)
    IN  IF ~r.ok THEN Raise(m1, r.err)
        ELSE IF BooleanFails(r.val) THEN Raise(m1, Xacro("conditional", ToText(r.val)))
        ELSE IF ~BooleanValue(r.val) THEN [m1 EXCEPT !.val = BoolV(FALSE)]
        ELSE [m1 EXCEPT !.val = BoolV(TRUE),
                        !.frames = Append(@, Frame("cond", n.kids, f.symbols, f.macros, n, NoAux))]

\* xacro:if, xacro:unless: the condition is evaluated to a boolean; the kept
\* element is walked by a new call of eval_all, which starts with the
\* element's attributes, so that value is evaluated once more
Conditional(n, m) ==
    LET f == TopF(m)
        r == EvalText(n.value, f.symbols, WorldOf(m))
        m1 == SetWorld(m, r.w)
        keep == IF n.tag = "unless" THEN ~BooleanValue(r.val) ELSE BooleanValue(r.val)
        r2 == EvalText(n.value, f.symbols, WorldOf(m1))
        m2 == SetWorld(m1, r2.w)
    IN  IF ~r.ok THEN Raise(m1, r.err)
        ELSE IF BooleanFails(r.val) THEN Raise(m1, Xacro("conditional", ToText(r.val)))
        ELSE IF ~keep THEN [m1 EXCEPT !.val = BoolV(FALSE)]
        ELSE IF ~r2.ok THEN Raise(m2, r2.err)
        ELSE [m2 EXCEPT !.val = BoolV(TRUE),
                        !.frames = Append(@, Frame("cond", n.kids, f.symbols, f.macros, n, NoAux))]

\* the children of the kept element are evaluated and replace it
ConditionalExit(m) ==
    LET f == TopF(m)
    IN  PushOut([m EXCEPT !.frames = Pop(@)], f.out)

(***************************************************************************)
(* process_include                                                         *)
(***************************************************************************)
MTable(parent) == [parent |-> parent, d |-> EmptyMap]

DropDefs(dfs, id) == [x \in {y \in DOMAIN dfs : y[1] # id} |-> dfs[x]]

\* process_include after the namespace is set up: ns_macros and ns_symbols
\* are the tables of the included documents
IncludeFrom(n, m, ns_macros, ns_symbols) ==
    LET f == TopF(m)
        optional == IF n.optional = None THEN NoneV ELSE StrV(n.optional[1])
        rf == EvalText(n.filename, f.symbols, WorldOf(m))
        m1 == SetWorld(m, rf.w)
        spec == AbsFilenameSpec(rf.val.v, m1.fs)
        incl == Frame("include", <<>>, ns_symbols, ns_macros, n,
                      [optional |-> BooleanValue(optional), rest |-> <<>>,
                       included |-> <<>>, file |-> <<>>])
    IN  IF BooleanFails(optional) THEN Raise(m, Xacro("conditional", optional))
        ELSE IF ~rf.ok THEN Raise(m1, rf.err)
        ELSE IF ~IsStr(rf.val) THEN Raise(m1, Err("TypeError", "None", "type", <<>>))
        ELSE IncludeLoop(m1, incl, IncludeFiles(spec))

ProcessInclude(n, m) ==
    LET f == TopF(m)
        rn == EvalText(OptOr(n.ns, <<>>), f.symbols, WorldOf(m))
        m1 == SetWorld(m, rn.w)
        key == ToText(rn.val)
        mid == Len(m1.mtabs) + 1
        sid == Len(m1.tabs) + 1
        m2 == [m1 EXCEPT
                 !.mtabs = Append([@ EXCEPT ![f.macros].d = Put(@, key, NsV(mid))], MTable(0)),
                 !.tabs = Append(SetItem(@, f.symbols, key, NsV(sid), TRUE),
                                 NewTable("NameSpace", f.symbols)),
                 !.defs = DropDefs(Drop(@, <<f.symbols, key>>), sid)]
    IN  IF OptOr(n.ns, <<>>) = <<>> THEN IncludeFrom(n, m, f.macros, f.symbols)
        ELSE IF ~rn.ok THEN Raise(m1, rn.err)
        ELSE IncludeFrom(n, m2, mid, sid)

\* func(include, ...) returned: the document is kept, the file stack is
\* restored, the loop goes on
IncludeExit(m) ==
    LET f == TopF(m)
    IN  IncludeLoop([m EXCEPT !.frames = Pop(@), !.fs = Pop(@)],
                    [f EXCEPT !.aux.included = @ \o f.out],
                    f.aux.rest)

(***************************************************************************)
(* Macros: parse_macro_arg, grab_macro                                     *)
(***************************************************************************)
LStrip(s) == From(s, Leading(s, 1, " ") + 1)

\* the length of the default that re_macro_arg matches at s[i]: ${...} or
\* $(...) up to the first closing character that a blank or the end
\* follows, else the characters up to the next blank (quoted defaults with
\* blanks are not in the model)
RECURSIVE CloseAt(_, _, _)
CloseAt(s, i, c) ==
    LET j == Find(s, i, {c})
    IN  IF j = 0 THEN 0
        ELSE IF j = Len(s) \/ s[j + 1] = " " THEN j
        ELSE CloseAt(s, j + 1, c)

DefaultLen(s, i) ==
    LET brace == Sub(s, i, i + 1) = <<"$", "{">> /\ CloseAt(s, i + 2, "}") # 0
        paren == Sub(s, i, i + 1) = <<"$", "(">> /\ CloseAt(s, i + 2, ")") # 0
    IN  IF brace THEN CloseAt(s, i + 2, "}") - i + 1
        ELSE IF paren THEN CloseAt(s, i + 2, ")") - i + 1
        ELSE RunLen(s, i, {" "})

\* parse_macro_arg: the first param spec of s as
\* [ok, param, value, forward, default, rest]; value says that the middle
\* pair is not None; ok is FALSE where result[0] raises IndexError
parse_macro_arg(s) ==
    LET s1 == LStrip(s)
        n == RunLen(s1, 1, {" ", ":", "="})
        i1 == Leading(s1, n + 1, " ") + 1
        i2 == IF i1 <= Len(s1) /\ s1[i1] = ":" THEN i1 + 1 ELSE i1
        matches == n >= 1 /\ i2 <= Len(s1) /\ s1[i2] = "="
        i3 == Leading(s1, i2 + 1, " ") + 1
        fwd == IF i3 <= Len(s1) /\ s1[i3] = "^"
               THEN (IF i3 < Len(s1) /\ s1[i3 + 1] = "|" THEN 2 ELSE 1)
               ELSE 0
        i4 == i3 + fwd
        dlen == DefaultLen(s1, i4)
        param == Sub(s1, 1, n)
        word == RunLen(s1, 1, {" "})
    IN  IF matches
        THEN [ok |-> TRUE, param |-> param, value |-> TRUE,
              forward |-> IF fwd > 0 THEN Some(param) ELSE None,
              default |-> IF dlen > 0 THEN Some(Sub(s1, i4, i4 + dlen - 1)) ELSE None,
              rest |-> From(s1, Leading(s1, i4 + dlen, " ") + 1)]
        ELSE [ok |-> s1 # <<>>, param |-> Sub(s1, 1, word), value |-> FALSE,
              forward |-> None, default |-> None,
              rest |-> LStrip(From(s1, word + 1))]

\* the while loop of grab_macro over the params attribute
RECURSIVE ParseParams(_, _, _)
ParseParams(s, params, defaultmap) ==
    IF s = <<>> THEN [ok |-> TRUE, params |-> params, defaultmap |-> defaultmap]
    ELSE LET a == parse_macro_arg(s)
         IN  IF ~a.ok THEN [ok |-> FALSE, params |-> params, defaultmap |-> defaultmap]
             ELSE ParseParams(a.rest, Append(params, a.param),
                              IF a.value
                              THEN Put(Drop(defaultmap, a.param), a.param,
                                       [forward |-> a.forward, default |-> a.default])
                              ELSE defaultmap)

\* a variant of Macro in which every default forwards the caller's property
MacroForwardAll(n, params, defaultmap) ==
    [t |-> "Macro", name |-> n.name, body |-> n.body, params |-> params,
     defaultmap |-> [q \in DOMAIN defaultmap |->
                        [forward |-> Some(q), default |-> defaultmap[q].default]],
     attrs |-> <<n.name, OptOr(n.params, <<>>)>>]

\* class Macro (the history of definitions is left out)
Macro(n, params, defaultmap) ==
    [t |-> "Macro", name |-> n.name, body |-> n.body, params |-> params,
     defaultmap |-> defaultmap, attrs |-> <<n.name, OptOr(n.params, <<>>)>>]

GrabMacro(n, m) ==
    LET macros == TopF(m).macros
        r == ParseParams(OptOr(n.params, <<>>), <<>>, EmptyMap)
    IN  IF n.name = <<"call">> THEN Raise(m, Xacro("macro_name", n.name))
        ELSE IF Has(n.name, ".") THEN Raise(m, Xacro("macro_name", n.name))
        ELSE IF ~r.ok THEN Raise(m, Err("IndexError", "None", "index", <<>>))
        ELSE [m EXCEPT !.mtabs[macros].d =
                 Put(Drop(@, n.name), n.name, Macro(n, r.params, r.defaultmap))]

(***************************************************************************)
(* resolve_macro                                                           *)
(***************************************************************************)
\* macros[name], a Table lookup through the parents; the result is
\* <<found, value>>
RECURSIVE MGet(_, _, _)
MGet(mts, id, name) ==
    IF id = 0 THEN <<FALSE, NoneV>>
    ELSE IF name \in DOMAIN mts[id].d THEN <<TRUE, mts[id].d[name]>>
    ELSE MGet(mts, mts[id].parent, name)

\* str.split('.')
RECURSIVE SplitDots(_)
SplitDots(s) ==
    LET i == Find(s, 1, {"."})
    IN  IF i = 0 THEN <<s>> ELSE <<Sub(s, 1, i - 1)>> \o SplitDots(From(s, i + 1))

\* _resolve: through the namespaces to the macro; the result is
\* [ok, macros, symbols, m, w, err]
RECURSIVE ResolveIn(_, _, _, _, _, _)
ResolveIn(namespaces, name, mts, macros, symbols, w) ==
    LET bad(e, w1) == [ok |-> FALSE, macros |-> macros, symbols |-> symbols,
                       m |-> NoneV, w |-> w1, err |-> e]
    IN  IF namespaces = <<>>
        THEN (IF MGet(mts, macros, name)[1]
              THEN [ok |-> TRUE, macros |-> macros, symbols |-> symbols,
                    m |-> MGet(mts, macros, name)[2], w |-> w, err |-> NoErr]
              ELSE bad(Err("KeyError", "None", "key", name), w))
        ELSE LET ns == Head(namespaces)
                 mm == MGet(mts, macros, ns)
                 rs == GetItem(symbols, ns, w)
             IN  IF ~mm[1] THEN bad(Err("KeyError", "None", "key", ns), w)
                 ELSE IF ~rs.ok THEN bad(rs.err, rs.w)
                 \* a Macro or a value that is no table cannot be indexed
                 ELSE IF mm[2].t # "ns" \/ rs.val.t # "ns"
                      THEN bad(Err("TypeError", "None", "type", ns), rs.w)
                 ELSE ResolveIn(Tail(namespaces), name, mts, mm[2].v, rs.val.v, rs.w)

resolve_macro(fullname, mts, macros, symbols, w) ==
    LET direct == ResolveIn(<<>>, fullname, mts, macros, symbols, w)
        parts == SplitDots(fullname)
    IN  IF direct.ok \/ Len(parts) = 1 THEN direct
        ELSE ResolveIn(Pop(parts), parts[Len(parts)], mts, macros, symbols, w)

(***************************************************************************)
(* handle_macro_call                                                       *)
(***************************************************************************)
\* the loop over the attributes of the call: each names a parameter and is
\* evaluated in symbols; the result is [ok, params, w, err]
RECURSIVE BindAttrs(_, _, _, _, _)
BindAttrs(attrs, params, scoped, symbols, w) ==
    IF attrs = <<>> THEN [ok |-> TRUE, params |-> params, w |-> w, err |-> NoErr]
    ELSE LET name == attrs[1][1]
             r == EvalText(attrs[1][2], symbols, w)
         IN  IF ~InSeq(params, name)
             THEN [ok |-> FALSE, params |-> params, w |-> w,
                   err |-> Xacro("invalid_parameter", name)]
             ELSE IF ~r.ok
                  THEN [ok |-> FALSE, params |-> params, w |-> r.w, err |-> r.err]
             ELSE BindAttrs(Tail(attrs), RemoveFirst(params, name), scoped, symbols,
                            [r.w EXCEPT !.tabs = SetItem(@, scoped, name, r.val, FALSE)])

\* the call up to the evaluation of its content: resolve the macro, push
\* it, make the scope of the body, bind the attributes
MacroCall(n, m) ==
    LET f == TopF(m)
        rm == resolve_macro(n.name, m.mtabs, f.macros, f.symbols, WorldOf(m))
        m1 == SetWorld(m, rm.w)
        scoped == Len(m1.tabs) + 1
        smacros == Len(m1.mtabs) + 1
        m2 == [m1 EXCEPT !.ms = Append(@, rm.m.name),
                         !.tabs = Append(@, NewTable("Table", rm.symbols)),
                         !.mtabs = Append(@, MTable(rm.macros)),
                         !.defs = DropDefs(@, scoped)]
        ra == BindAttrs(n.attrs, rm.m.params, scoped, rm.symbols, WorldOf(m2))
        m3 == SetWorld(m2, ra.w)
    IN  IF ~rm.ok
        THEN (IF rm.err.cls = "KeyError" THEN Raise(m1, Xacro("unknown_macro", n.name))
              ELSE Raise(m1, rm.err))
        \* a namespace has no body
        ELSE IF rm.m.t # "Macro"
             THEN Raise(m1, Err("AttributeError", "None", "attribute", <<"body">>))
        ELSE IF ~ra.ok THEN Raise(m3, ra.err)
        ELSE [m3 EXCEPT !.frames =
                 Append(@, Frame("args", n.kids, rm.symbols, rm.macros, n,
                                 [m |-> rm.m, params |-> ra.params,
                                  scoped |-> scoped, smacros |-> smacros]))]

\* the loop that binds the block parameters to the child elements, in order
RECURSIVE BindBlocks(_, _, _, _, _)
BindBlocks(todo, params, blocks, scoped, tbs) ==
    IF todo = <<>>
    THEN [ok |-> blocks = <<>>, params |-> params, tabs |-> tbs,
          err |-> IF blocks = <<>> THEN NoErr ELSE Xacro("unused_block", blocks[1].tag)]
    ELSE IF Head(todo)[1] # "*"
         THEN BindBlocks(Tail(todo), params, blocks, scoped, tbs)
    ELSE IF blocks = <<>>
         THEN [ok |-> FALSE, params |-> params, tabs |-> tbs,
               err |-> Xacro("not_enough_blocks", Head(todo))]
    ELSE BindBlocks(Tail(todo), RemoveFirst(params, Head(todo)), Tail(blocks), scoped,
                    SetItem(tbs, scoped, Head(todo), NodeV(Head(blocks)), TRUE))

\* a variant of eval_default_arg that prefers the default to the caller
eval_default_first(forward_variable, default, symbols, w) ==
    LET r == GetItem(symbols, forward_variable[1], w)
    IN  IF default # None THEN EvalText(default[1], symbols, w)
        ELSE IF r.ok THEN r
        ELSE IF r.err.cls # "KeyError" THEN r
        ELSE Fail(Xacro("undefined_forward", forward_variable[1]), r.w)

eval_default_arg(forward_variable, default, symbols, w) ==
    LET r == GetItem(symbols, forward_variable[1], w)
    IN  IF forward_variable = None THEN EvalText(default[1], symbols, w)
        ELSE IF r.ok THEN r
        ELSE IF r.err.cls # "KeyError" THEN r
        ELSE IF default # None THEN EvalText(default[1], symbols, r.w)
        ELSE Fail(Xacro("undefined_forward", forward_variable[1]), r.w)

\* the loop that loads the defaults of the parameters still unbound
RECURSIVE BindDefaults(_, _, _, _, _, _)
BindDefaults(todo, params, mac, scoped, symbols, w) ==
    IF todo = <<>> THEN [ok |-> TRUE, params |-> params, w |-> w, err |-> NoErr]
    ELSE LET param == Head(todo)
             has == param \in DOMAIN mac.defaultmap
                    /\ (mac.defaultmap[param].forward # None
                        \/ mac.defaultmap[param].default # None)
             r == eval_default_arg(mac.defaultmap[param].forward,
                                   mac.defaultmap[param].default, symbols, w)
         IN  IF param[1] = "*" \/ ~has
             THEN BindDefaults(Tail(todo), params, mac, scoped, symbols, w)
             ELSE IF ~r.ok
                  THEN [ok |-> FALSE, params |-> params, w |-> r.w, err |-> r.err]
             ELSE BindDefaults(Tail(todo), RemoveFirst(params, param), mac, scoped, symbols,
                               [r.w EXCEPT !.tabs = SetItem(@, scoped, param, r.val, FALSE)])

\* eval_all on the clone of the macro element starts with its attributes,
\* name and params, evaluated in the scope of the body
RECURSIVE EvalAttrs(_, _, _)
EvalAttrs(texts, symbols, w) ==
    IF texts = <<>> THEN Ok(NoneV, w)
    ELSE LET r == EvalText(Head(texts), symbols, w)
         IN  IF ~r.ok THEN r ELSE EvalAttrs(Tail(texts), symbols, r.w)

\* a variant of the call that evaluates the body although parameters are
\* left unbound
ArgsDoneLenient(m) ==
    LET f == TopF(m)
        a == f.aux
        rb == BindBlocks(a.params, a.params, f.out, a.scoped, m.tabs)
        m1 == [m EXCEPT !.tabs = rb.tabs]
        rd == BindDefaults(rb.params, rb.params, a.m, a.scoped, f.symbols, WorldOf(m1))
        m2 == SetWorld(m1, rd.w)
        re == EvalAttrs(a.m.attrs, a.scoped, WorldOf(m2))
        m3 == SetWorld(m2, re.w)
    IN  IF ~rb.ok THEN Raise(m1, rb.err)
        ELSE IF ~rd.ok THEN Raise(m2, rd.err)
        ELSE IF ~re.ok THEN Raise(m3, re.err)
        ELSE [m3 EXCEPT !.frames[Len(m.frames)] =
                 Frame("body", a.m.body, a.scoped, a.smacros, f.node, a)]

\* the content of the call is evaluated: bind the blocks and the defaults,
\* then evaluate the body in the new scope
ArgsDone(m) ==
    LET f == TopF(m)
        a == f.aux
        rb == BindBlocks(a.params, a.params, f.out, a.scoped, m.tabs)
        m1 == [m EXCEPT !.tabs = rb.tabs]
        rd == BindDefaults(rb.params, rb.params, a.m, a.scoped, f.symbols, WorldOf(m1))
        m2 == SetWorld(m1, rd.w)
        re == EvalAttrs(a.m.attrs, a.scoped, WorldOf(m2))
        m3 == SetWorld(m2, re.w)
    IN  IF ~rb.ok THEN Raise(m1, rb.err)
        ELSE IF ~rd.ok THEN Raise(m2, rd.err)
        ELSE IF rd.params # <<>> THEN Raise(m2, Xacro("undefined_parameters", rd.params))
        ELSE IF ~re.ok THEN Raise(m3, re.err)
        ELSE [m3 EXCEPT !.frames[Len(m.frames)] =
                 Frame("body", a.m.body, a.scoped, a.smacros, f.node, a)]

\* the body is evaluated: its content replaces the call
BodyExit(m) ==
    LET f == TopF(m)
    IN  [PushOut([m EXCEPT !.frames = Pop(@)], f.out) EXCEPT !.ms = Pop(@), !.done = TRUE]

(***************************************************************************)
(* xacro:insert_block                                                      *)
(***************************************************************************)
\* the attributes of a block: v of an element, name of a property element
BlockAttrs(b) == IF b.k = "elem" THEN <<b.v>> ELSE <<b.name>>

InsertBlockFrom(n, m, key, content_only) ==
    LET f == TopF(m)
        r == GetItem(f.symbols, key, WorldOf(m))
        m1 == SetWorld(m, r.w)
        b == r.val.v
        ra == EvalAttrs(BlockAttrs(b), f.symbols, WorldOf(m1))
        rv == EvalText(b.v, f.symbols, WorldOf(m1))
        m2 == SetWorld(m1, ra.w)
        b2 == IF b.k = "elem" THEN [b EXCEPT !.v = ToText(rv.val), !.kids = <<>>] ELSE b
    IN  IF ~r.ok THEN Raise(m1, r.err)
        ELSE IF r.val.t # "node"
             THEN Raise(m1, Err("AttributeError", "None", "attribute", <<"cloneNode">>))
        ELSE IF ~ra.ok THEN Raise(m2, ra.err)
        ELSE [m2 EXCEPT !.frames =
                 Append(@, Frame("block", b.kids, f.symbols, f.macros, b2,
                                 [content_only |-> content_only]))]

\* a variant of insert_block that inserts nothing for a name without block
InsertBlockLenient(n, m) ==
    LET symbols == TopF(m).symbols
    IN  IF Contains(m.tabs, symbols, <<"*", "*">> \o n.name)
        THEN InsertBlockFrom(n, m, <<"*", "*">> \o n.name, TRUE)
        ELSE IF Contains(m.tabs, symbols, <<"*">> \o n.name)
             THEN InsertBlockFrom(n, m, <<"*">> \o n.name, FALSE)
        ELSE m

\* a variant of insert_block that inserts the element of a ** block
InsertBlockWhole(n, m) ==
    LET symbols == TopF(m).symbols
    IN  IF Contains(m.tabs, symbols, <<"*", "*">> \o n.name)
        THEN InsertBlockFrom(n, m, <<"*", "*">> \o n.name, FALSE)
        ELSE IF Contains(m.tabs, symbols, <<"*">> \o n.name)
             THEN InsertBlockFrom(n, m, <<"*">> \o n.name, FALSE)
        ELSE Raise(m, Xacro("undefined_block", n.name))

InsertBlock(n, m) ==
    LET symbols == TopF(m).symbols
    IN  IF Contains(m.tabs, symbols, <<"*", "*">> \o n.name)
        THEN InsertBlockFrom(n, m, <<"*", "*">> \o n.name, TRUE)
        ELSE IF Contains(m.tabs, symbols, <<"*">> \o n.name)
             THEN InsertBlockFrom(n, m, <<"*">> \o n.name, FALSE)
        ELSE Raise(m, Xacro("undefined_block", n.name))

\* the block is evaluated and replaces the insert_block element
BlockExit(m) ==
    LET f == TopF(m)
    IN  PushOut([m EXCEPT !.frames = Pop(@)],
                IF f.aux.content_only THEN f.out
                ELSE <<[f.node EXCEPT !.kids = f.out]>>)

(***************************************************************************)
(* The state after process_file has parsed the input document and          *)
(* process_doc has made its tables, before eval_all visits the first node. *)
(***************************************************************************)
\* the mappings of the command line
InitArgs == (<<"size">> :> <<"4", "2">>)

NoNode == [k |-> "none"]

Init ==
    /\ tabs = <<RootDict, NewTable("Table", Root)>>
    /\ mtabs = <<MTable(0)>>
    /\ filestack = <<TopFile>>
    /\ macrostack = <<>>
    /\ all_includes = <<>>
    /\ launchfile \in BOOLEAN
    /\ cmdline \in {EmptyMap, InitArgs}
    /\ mappings = cmdline
    /\ subst_args = mappings
    /\ run = 1
    /\ lex = NewLexer
    /\ frames = <<Frame("doc", <<>>, 2, 1, NoNode, NoAux)>>
    /\ status = "run"
    /\ err = NoErr
    /\ fed = 0
    /\ defs = EmptyMap
    /\ last = [k |-> "init", n |-> NoNode, raised |-> NoErr, caught |-> "none",
               val |-> NoneV, done |-> FALSE]

\* the node eval_all visits next: the next child of the running call, or,
\* in the input document, any node of the pool
Cur(P) ==
    IF frames[Len(frames)].todo # <<>> THEN {Head(frames[Len(frames)].todo)}
    ELSE IF Len(frames) = 1 /\ fed < P.max THEN P.nodes
    ELSE {}

\* the state with the visited node taken from todo
TakenNode ==
    IF frames[Len(frames)].todo # <<>>
    THEN [St EXCEPT !.frames[Len(frames)].todo = Tail(@)]
    ELSE St

\* the same for an element: any tag disables the evaluation of comments
Taken ==
    [TakenNode EXCEPT !.frames[Len(frames)].eval_comments = FALSE,
                      !.frames[Len(frames)].seen = <<>>]

\* the handler's result becomes the next state
Commit(m, k, n) ==
    /\ Len(m.frames) <= MaxDepth
    /\ Len(m.tabs) <= MaxScopes
    /\ Len(m.mtabs) <= MaxScopes
    /\ tabs' = m.tabs
    /\ mtabs' = m.mtabs
    /\ filestack' = m.fs
    /\ macrostack' = m.ms
    /\ all_includes' = m.inc
    /\ subst_args' = m.args
    /\ mappings' = m.args
    /\ UNCHANGED <<launchfile, cmdline, run, lex>>
    /\ frames' = m.frames
    /\ status' = m.status
    /\ err' = m.err
    /\ defs' = m.defs
    /\ fed' = IF Len(frames) = 1 THEN fed + 1 ELSE fed
    /\ last' = [k |-> k, n |-> n, raised |-> m.raised, caught |-> m.caught,
                val |-> m.val, done |-> m.done]

\* the innermost eval_all call of kind k has visited all its nodes
AtEnd(k) ==
    /\ Len(frames) > 1
    /\ frames[Len(frames)].kind = k
    /\ frames[Len(frames)].todo = <<>>

(***************************************************************************)
(* The steps of eval_all.  Each takes the handler it calls as its last     *)
(* argument: EvalElement, GrabProperty, GrabMacro, MacroCall, InsertBlock, *)
(* ProcessInclude for the nodes, ElementExit, ArgsDone, BodyExit,          *)
(* BlockExit, IncludeExit for the ends of the inner calls.                 *)
(***************************************************************************)
\* eval_all meets an element that is no directive
VisitElement(P, H(_, _)) ==
    /\ status = "run"
    /\ \E n \in Cur(P) : n.k = "elem" /\ Commit(H(n, Taken), "elem", n)

\* eval_all meets xacro:property
VisitProperty(P, H(_, _)) ==
    /\ status = "run"
    /\ \E n \in Cur(P) : n.k = "property" /\ Commit(H(n, Taken), "property", n)

\* eval_all meets xacro:macro
VisitMacro(P, H(_, _)) ==
    /\ status = "run"
    /\ \E n \in Cur(P) : n.k = "macro" /\ Commit(H(n, Taken), "macro", n)

\* eval_all meets the call of a macro
VisitCall(P, H(_, _)) ==
    /\ status = "run"
    /\ \E n \in Cur(P) : n.k = "call" /\ Commit(H(n, Taken), "call", n)

\* eval_all meets xacro:insert_block
VisitInsertBlock(P, H(_, _)) ==
    /\ status = "run"
    /\ \E n \in Cur(P) : n.k = "insert_block" /\ Commit(H(n, Taken), "insert_block", n)

\* eval_all meets xacro:include
VisitInclude(P, H(_, _)) ==
    /\ status = "run"
    /\ \E n \in Cur(P) : n.k = "include" /\ Commit(H(n, Taken), "include", n)

\* eval_all meets a comment
VisitComment(P, H(_, _)) ==
    /\ status = "run"
    /\ \E n \in Cur(P) : n.k = "comment" /\ Commit(H(n, TakenNode), "comment", n)

\* eval_all meets a text node
VisitText(P, H(_, _)) ==
    /\ status = "run"
    /\ \E n \in Cur(P) : n.k = "text" /\ Commit(H(n, TakenNode), "text", n)

\* eval_all meets xacro:arg
VisitArg(P, H(_, _)) ==
    /\ status = "run"
    /\ \E n \in Cur(P) : n.k = "arg" /\ Commit(H(n, Taken), "arg", n)

\* eval_all meets xacro:if or xacro:unless
VisitConditional(P, H(_, _)) ==
    /\ status = "run"
    /\ \E n \in Cur(P) : n.k = "cond" /\ Commit(H(n, Taken), "cond", n)

\* the children of a kept xacro:if or xacro:unless are evaluated
LeaveConditional(H(_)) ==
    /\ status = "run"
    /\ AtEnd("cond")
    /\ Commit(H(St), "leave_cond", frames[Len(frames)].node)

\* the children of an element are evaluated
LeaveElement(H(_)) ==
    /\ status = "run"
    /\ AtEnd("elem")
    /\ Commit(H(St), "leave_elem", frames[Len(frames)].node)

\* the content of a macro call is evaluated
LeaveArgs(H(_)) ==
    /\ status = "run"
    /\ AtEnd("args")
    /\ Commit(H(St), "leave_args", frames[Len(frames)].node)

\* the body of a macro is evaluated
LeaveBody(H(_)) ==
    /\ status = "run"
    /\ AtEnd("body")
    /\ Commit(H(St), "leave_body", frames[Len(frames)].node)

\* an inserted block is evaluated
LeaveBlock(H(_)) ==
    /\ status = "run"
    /\ AtEnd("block")
    /\ Commit(H(St), "leave_block", frames[Len(frames)].node)

\* an included document is evaluated
LeaveInclude(H(_)) ==
    /\ status = "run"
    /\ AtEnd("include")
    /\ Commit(H(St), "leave_include", frames[Len(frames)].node)

\* eval_all returns to process_doc, which resets the substitution args
Finish ==
    /\ status = "run"
    /\ Len(frames) = 1
    /\ fed > 0
    /\ status' = "done"
    /\ subst_args' = EmptyMap
    /\ last' = [k |-> "finish", n |-> NoNode, raised |-> NoErr, caught |-> "none",
                val |-> NoneV, done |-> TRUE]
    /\ UNCHANGED <<launchfile, tabs, mtabs, filestack, macrostack, all_includes,
                   mappings, cmdline, run, frames, err, fed, defs, lex>>

\* main's loop over the input files: process_file starts the next document
\* with new stacks and tables and installs the same mappings object again
ProcessFile ==
    /\ status = "done"
    /\ run < MaxRuns
    /\ run' = run + 1
    /\ tabs' = <<RootDict, NewTable("Table", Root)>>
    /\ mtabs' = <<MTable(0)>>
    /\ filestack' = <<TopFile>>
    /\ macrostack' = <<>>
    /\ subst_args' = mappings
    /\ frames' = <<Frame("doc", <<>>, 2, 1, NoNode, NoAux)>>
    /\ status' = "run"
    /\ fed' = 0
    /\ defs' = EmptyMap
    /\ last' = [k |-> "process_file", n |-> NoNode, raised |-> NoErr, caught |-> "none",
                val |-> NoneV, done |-> FALSE]
    /\ UNCHANGED <<launchfile, all_includes, mappings, cmdline, err, lex>>

(***************************************************************************)
(* The runs.  A pool is the set of nodes the input document is made of     *)
(* and the number of its top-level nodes.                                  *)
(***************************************************************************)
Pool(nodes, max) == [nodes |-> nodes, max |-> max]

Prop(name, text) == Property(<<name>>, Some(text), None, None, None, None)

Read(name) == Elem("r", Ref(<<name>>), <<>>)

True == <<"t", "r", "u", "e">>
False == <<"f", "a", "l", "s", "e">>

\* macro calls over the macros of defs and lib
PoolMacro ==
    Pool({Include(<<"defs">>, None, None),
          Include(<<"lib">>, Some(<<"n">>), None),
          Prop("a", <<"1">>), Prop("c", <<"5">>), Prop("x", <<"2">>),
          Call(<<"m">>, <<<<<<"a">>, <<"1">>>>, <<<<"c">>, Ref(<<"a", "+", "1", "0">>)>>>>, <<>>),
          Call(<<"m">>, <<<<<<"a">>, <<"1">>>>>>, <<>>),
          Call(<<"m">>, <<>>, <<>>),
          Call(<<"wrap">>, <<>>, <<Elem("x", <<>>, <<>>), Elem("y", <<>>, <<>>)>>),
          Call(<<"wrap">>, <<>>,
               <<Elem("c", <<>>, <<Elem("x", <<>>, <<>>), Elem("y", <<>>, <<>>)>>)>>),
          Call(<<"f">>, <<>>, <<>>),
          Call(<<"u">>, <<<<<<"p">>, <<"4">>>>>>, <<>>),
          Call(<<"n", ".", "m">>, <<<<<<"q">>, Ref(<<"x">>)>>>>, <<>>)},
         MaxNodes)

\* properties on cycles, in one scope and through a namespace
PoolCycle ==
    Pool({Prop("a", Ref(<<"b">>)), Prop("b", Ref(<<"a">>)), Prop("b", <<"2">>),
          Prop("p", Ref(<<"n", ".", "x">>)),
          Include(<<"cyc">>, Some(<<"n">>), None),
          Read("a"), Read("b"), Read("p")},
         MaxNodes)

\* lazy and eager properties and their reads
PoolLazy ==
    Pool({Prop("a", Ref(<<"b">>)), Prop("b", <<"2">>), Prop("b", <<"3">>),
          Prop("a", <<"'", "1", "'">>), Prop("a", Ref(<<"b">>) \o <<"0">>),
          Property(<<"a">>, Some(Ref(<<"b">>)), None, None, None, Some(False)),
          Read("a"), Read("b")},
         MaxReads)

\* includes: optional or not, of files that open or not
PoolInclude ==
    Pool({Include(<<"g", "*">>, None, Some(True)),
          Include(<<"miss">>, None, Some(True)),
          Include(<<"miss">>, None, None),
          Include(<<"one">>, None, None),
          Include(<<"k">>, None, Some(True)),
          Include(<<"s", "/", "in">>, None, Some(True)),
          Include(<<"s", "/", "ym">>, None, Some(True)),
          Include(<<"s", "/", "yo">>, None, None),
          Elem("e", <<"0">>, <<>>)},
         MaxNodes)

\* documents that declare an argument, read it and include a file
PoolDocs ==
    Pool({Arg(<<"size">>, <<"1", "0">>), Arg(<<"size">>, <<"2", "0">>),
          Include(<<"one">>, None, None),
          Elem("b", <<"$", "(", "arg", " ", "size", ")">>, <<>>)},
         MaxNodes)

\* N dollar signs
RECURSIVE Dollars(_)
Dollars(N) == IF N = 0 THEN <<>> ELSE <<"$">> \o Dollars(N - 1)

\* attribute texts with escaped and plain dollars, expressions, and the
\* property x, bound lazily to a text that cannot be evaluated
PoolText ==
    Pool({Elem("e", Dollars(N) \o <<b, "x", IF b = "{" THEN "}" ELSE ")">>, <<>>) :
             N \in 2..MaxDollars, b \in {"{", "("}}
         \cup {Elem("e", <<"a", "$", "b">>, <<>>),
               Elem("e", Ref(<<"1", "+", "2">>), <<>>),
               Elem("e", Ref(<<"'", "$", "$", "'">>), <<>>),
               Elem("e", <<"1">>, <<Elem("e", Ref(<<"1", "+", "2">>), <<>>)>>),
               Prop("x", Ref(<<"y">>))},
         MaxNodes)

\* the raw values of the property n: texts with and without underscore
RawTexts ==
    {<<"1", "_", "0", "0", "0">>, <<"7">>, <<"1", ".", "5">>, True, <<"abc">>,
     <<"'", "7", "'">>}

\* the property n bound lazily or eagerly to a raw text, and its read
PoolLiteral ==
    Pool({Prop("n", t) : t \in RawTexts}
         \cup {Property(<<"n">>, Some(t), None, None, None, Some(False)) : t \in RawTexts}
         \cup {Read("n")},
         MaxNodes)

Remove(name) == Property(<<name>>, None, None, Some(True), None, None)

\* properties bound and removed: in the input document, in the body of a
\* macro, in a namespace, and under a name that the global symbols bind
PoolDelete ==
    Pool({Prop("a", <<"1">>), Prop("a", Ref(<<"b">>)), Prop("load_yaml", <<"5">>),
          Remove("a"), Remove("load_yaml"),
          Include(<<"del">>, None, None),
          Include(<<"dn">>, Some(<<"n">>), None),
          Call(<<"d">>, <<>>, <<>>), Call(<<"dr">>, <<>>, <<>>),
          Read("a"), Read("load_yaml")},
         MaxNodes)

\* the condition values: texts of the ladder, texts outside it, and
\* expressions whose value is no text
CondTexts ==
    {<<"0">>, <<"1">>, True, <<"F", "a", "l", "s", "e">>, <<"a", "b", "c">>,
     <<"1", ".", "0">>, Ref(<<"0", ".", "5">>), Ref(<<"2">>), Ref(<<"u">>)}

\* xacro:if around <a/> and xacro:unless around <b/>, on every condition value
PoolCond ==
    Pool({If(v, <<Elem("a", <<>>, <<>>)>>) : v \in CondTexts}
         \cup {Unless(v, <<Elem("b", <<>>, <<>>)>>) : v \in CondTexts},
         MaxNodes)

\* the read of the substitution argument size
ArgSize == <<"$", "(", "arg", " ", "size", ")">>

\* declarations of the argument size, with a default that is a text, an
\* expression, or undefined, and the read of the argument
PoolArg ==
    Pool({Arg(<<"size">>, <<"1", "0">>), Arg(<<"size">>, <<"2", "0">>),
          Arg(<<"size">>, Ref(<<"4", "+", "6">>)), Arg(<<"size">>, Ref(<<"u">>)),
          Elem("b", ArgSize, <<>>)},
         MaxNodes)

\* the element <c v="1"><x/><y/></c>, passed as a block
BlockC == Elem("c", <<"1">>, <<Elem("x", <<>>, <<>>), Elem("y", <<>>, <<>>)>>)

\* blocks bound by a macro call (*b, **b) and by a property without value
\* (**b), inserted in a macro body and in the input document
PoolBlock ==
    Pool({Include(<<"blk">>, None, None),
          Call(<<"twice">>, <<>>, <<BlockC>>),
          Call(<<"tw2">>, <<>>, <<BlockC>>),
          BlockProperty(<<"b">>, <<Elem("e", Ref(<<"x">>), <<>>)>>),
          Prop("x", <<"1">>), Prop("x", <<"2">>),
          Insert(<<"b">>)},
         MaxNodes)

\* calls with an attribute that is no parameter, with too few and too many
\* child elements, without a required parameter, and calls that bind all
PoolArity ==
    Pool({Include(<<"defs">>, None, None),
          Include(<<"blk">>, None, None),
          Call(<<"m">>, <<<<<<"z">>, <<"1">>>>>>, <<>>),
          Call(<<"m">>, <<<<<<"a">>, Ref(<<"q">>)>>, <<<<"z">>, <<"1">>>>>>, <<>>),
          Call(<<"m">>, <<>>, <<Elem("x", <<>>, <<>>)>>),
          Call(<<"wrap">>, <<>>, <<>>),
          Call(<<"wrap">>, <<>>, <<Elem("x", <<>>, <<>>), Elem("y", <<>>, <<>>)>>),
          Call(<<"u">>, <<>>, <<>>),
          Call(<<"u">>, <<<<<<"p">>, <<"4">>>>>>, <<>>),
          Call(<<"f">>, <<>>, <<>>),
          Call(<<"twice">>, <<>>, <<BlockC>>)},
         MaxNodes)

\* attribute texts of one token and of several, with tokens whose value
\* is the empty text
TypedTexts ==
    {Ref(<<"1", "+", "1">>),
     <<" ">> \o Ref(<<"1", "+", "1">>),
     Ref(<<"1", "+", "1">>) \o Ref(<<"'", "'">>),
     Ref(<<"'", "'">>) \o Ref(<<"1", "+", "1">>),
     Ref(<<"'", "'">>),
     Ref(<<"1">>) \o Ref(<<"2">>),
     Ref(<<"0", ".", "5">>),
     <<"a">>, <<"7">>, <<>>}

PoolTyped == Pool({Elem("e", t, <<>>) : t \in TypedTexts}, MaxNodes)

PragmaOn == Comment(<<"xacro:eval-comments">>)
PragmaOff == Comment(<<"xacro:eval-comments", ":off">>)

\* comments with and without expression, the pragmas, blank and other
\* text, and elements around a comment and around a pragma and a comment
PoolComment ==
    Pool({PragmaOn, PragmaOff,
          Comment(Ref(<<"1", "+", "1">>)), Comment(<<"c">>),
          Text(<<"\n">>), Text(<<"t">>), Text(Ref(<<"'", "'">>)),
          Elem("e", <<>>, <<Comment(Ref(<<"1", "+", "1">>))>>),
          Elem("p", <<>>, <<PragmaOn, Comment(Ref(<<"1", "+", "1">>))>>)},
         MaxNodes)

\* a macro that calls itself, a document that includes itself, and a
\* macro and a document that do not
PoolDepth ==
    Pool({MacroDef(<<"loop">>, None, <<Call(<<"loop">>, <<>>, <<>>)>>),
          MacroDef(<<"leaf">>, None, <<Elem("e", <<>>, <<>>)>>),
          Call(<<"loop">>, <<>>, <<>>),
          Call(<<"leaf">>, <<>>, <<>>),
          Include(<<"self">>, None, None),
          Include(<<"one">>, None, None),
          Elem("e", <<"1">>, <<>>)},
         MaxNodes)

PropIn(name, text, scope) ==
    Property(<<name>>, Some(text), None, None, Some(scope), None)

\* properties bound in the local, the parent and the global scope, from
\* the input document, a macro, an included document and a namespace,
\* under new names and under a name that the global symbols bind
PoolScope ==
    Pool({Include(<<"scm">>, None, None), Include(<<"scm">>, Some(<<"n">>), None),
          Include(<<"scp">>, None, None), Include(<<"scp">>, Some(<<"n">>), None),
          Call(<<"sp">>, <<>>, <<>>), Call(<<"sg">>, <<>>, <<>>), Call(<<"sl">>, <<>>, <<>>),
          Call(<<"n", ".", "sp">>, <<>>, <<>>), Call(<<"n", ".", "sg">>, <<>>, <<>>),
          Prop("load_yaml", <<"5">>),
          PropIn("load_yaml", <<"5">>, <<"global">>),
          PropIn("load_yaml", <<"5">>, <<"parent">>),
          PropIn("a", Ref(<<"1", "+", "2">>), <<"parent">>),
          Property(<<"load_yaml">>, None, Some(<<"8">>), None, None, None),
          Remove("load_yaml"),
          Read("a"), Read("load_yaml")},
         MaxNodes)

\* the condition values the documentation of get_boolean_value names
BoolTrue == {<<"t", "r", "u", "e">>, <<"1">>, <<"1", ".", "0">>}
BoolFalse == {<<"f", "a", "l", "s", "e">>, <<"0">>, <<"0", ".", "0">>}

\* values that are no boolean expressions
BoolBad == {<<"a", "b", "c">>, <<"y", "e", "s">>, <<>>}

\* xacro:if around <a/> and xacro:unless around <b/>, on these values and
\* on the floats 1.0 and 0.0 as expressions
PoolBool ==
    LET vs == BoolTrue \cup BoolFalse \cup BoolBad
              \cup {Ref(<<"1", ".", "0">>), Ref(<<"0", ".", "0">>)}
    IN  Pool({If(v, <<Elem("a", <<>>, <<>>)>>) : v \in vs}
             \cup {Unless(v, <<Elem("b", <<>>, <<>>)>>) : v \in vs},
             MaxNodes)

\* the property y bound lazily to a text whose evaluation fails on a
\* missing file, or to 1; the property s bound to itself; their reads, in
\* the input document, in an included one, and by a macro of an included
\* document that forwards y
PoolResolving ==
    Pool({Prop("y", BadYamlText), Prop("y", <<"1">>), Prop("s", Ref(<<"s">>)),
          Include(<<"ry">>, None, Some(True)),
          Include(<<"fy">>, None, Some(True)),
          Include(<<"fy">>, None, None),
          Read("y"), Read("s")},
         MaxNodes)

\* the property a bound lazily to a text and to a number, bound eagerly to
\* a text, removed in the input document and by a macro, and read
PoolUnevaluated ==
    Pool({Prop("a", Ref(<<"b">>)), Prop("a", <<"1">>), Prop("b", <<"2">>),
          Property(<<"a">>, Some(<<"x">>), None, None, None, Some(False)),
          Remove("a"),
          Include(<<"del">>, None, None),
          Call(<<"d">>, <<>>, <<>>),
          Read("a")},
         MaxNodes)

\* the whole walker, on macro calls
Next ==
    \/ VisitElement(PoolMacro, EvalElement)
    \/ VisitProperty(PoolMacro, GrabProperty)
    \/ VisitMacro(PoolMacro, GrabMacro)
    \/ VisitCall(PoolMacro, MacroCall)
    \/ VisitInsertBlock(PoolMacro, InsertBlock)
    \/ VisitInclude(PoolMacro, ProcessInclude)
    \/ LeaveElement(ElementExit)
    \/ LeaveArgs(ArgsDone)
    \/ LeaveBody(BodyExit)
    \/ LeaveBlock(BlockExit)
    \/ LeaveInclude(IncludeExit)
    \/ Finish

Spec == Init /\ [][Next]_vars

NextCycle ==
    \/ VisitElement(PoolCycle, EvalElement)
    \/ VisitProperty(PoolCycle, GrabProperty)
    \/ VisitInclude(PoolCycle, ProcessInclude)
    \/ LeaveInclude(IncludeExit)
    \/ Finish

SpecCycle == Init /\ [][NextCycle]_vars

NextLazy ==
    \/ VisitElement(PoolLazy, EvalElement)
    \/ VisitProperty(PoolLazy, GrabProperty)
    \/ Finish

SpecLazy == Init /\ [][NextLazy]_vars

NextInclude ==
    \/ VisitElement(PoolInclude, EvalElement)
    \/ VisitInclude(PoolInclude, ProcessInclude)
    \/ LeaveInclude(IncludeExit)
    \/ Finish

SpecInclude == Init /\ [][NextInclude]_vars

NextText ==
    \/ VisitElement(PoolText, EvalElement)
    \/ VisitProperty(PoolText, GrabProperty)
    \/ LeaveElement(ElementExit)
    \/ Finish

SpecText == Init /\ [][NextText]_vars

NextLiteral ==
    \/ VisitElement(PoolLiteral, EvalElement)
    \/ VisitProperty(PoolLiteral, GrabProperty)
    \/ Finish

SpecLiteral == Init /\ [][NextLiteral]_vars

NextDelete ==
    \/ VisitElement(PoolDelete, EvalElement)
    \/ VisitProperty(PoolDelete, GrabProperty)
    \/ VisitMacro(PoolDelete, GrabMacro)
    \/ VisitCall(PoolDelete, MacroCall)
    \/ VisitInclude(PoolDelete, ProcessInclude)
    \/ LeaveArgs(ArgsDone)
    \/ LeaveBody(BodyExit)
    \/ LeaveInclude(IncludeExit)
    \/ Finish

SpecDelete == Init /\ [][NextDelete]_vars

\* several documents processed one after the other, as main does
NextDocs ==
    \/ VisitElement(PoolDocs, EvalElement)
    \/ VisitArg(PoolDocs, GrabArg)
    \/ VisitInclude(PoolDocs, ProcessInclude)
    \/ LeaveInclude(IncludeExit)
    \/ Finish
    \/ ProcessFile

SpecDocs == Init /\ [][NextDocs]_vars

(***************************************************************************)
(* Cycles of property references                                           *)
(***************************************************************************)
\* the tables of the symbols, without the global dict
Scopes == 2..Len(tabs)

\* the lazily bound properties, each with the table that holds it
Lazies == {u \in Scopes \X {<<"a">>, <<"b">>, <<"p">>, <<"x">>} : u[2] \in tabs[u[1]].unevaluated}

\* the table where a lookup of key that starts in table id finds it (0: none)
RECURSIVE Holder(_, _)
Holder(id, key) ==
    IF key \in DOMAIN tabs[id].d THEN id
    ELSE IF tabs[id].kind = "dict" THEN 0
    ELSE Holder(tabs[id].parent, key)

\* the text of the lazy property u refers to the lazy property v: by its
\* name, found from u's table, or through a namespace that u's text names
RefersTo(u, v) ==
    LET text == tabs[u[1]].d[u[2]].v
    IN  /\ Has(text, v[2][1])
        /\ \/ Holder(u[1], v[2]) = v[1]
           \/ \E ns \in {<<"n">>} :
                 /\ Has(text, ns[1])
                 /\ Holder(u[1], ns) # 0
                 /\ tabs[Holder(u[1], ns)].d[ns] = NsV(v[1])

RECURSIVE ReachedFrom(_, _)
ReachedFrom(S, n) ==
    IF n = 0 THEN S
    ELSE ReachedFrom(S \cup {v \in Lazies : \E u \in S : RefersTo(u, v)}, n - 1)

\* the lazy property u lies on a cycle of references
OnCycle(u) ==
    u \in Lazies /\ u \in ReachedFrom({v \in Lazies : RefersTo(u, v)}, Cardinality(Lazies))

\* every link of the chain is a reference from one lazy property to the next
IsResolutionChain(chain) ==
    /\ Len(chain) >= 2
    /\ \A i \in 1..(Len(chain) - 1) :
          \E u, v \in Lazies : u[2] = chain[i] /\ v[2] = chain[i + 1] /\ RefersTo(u, v)

\* the chain of a circular error is the list of the properties that the
\* detecting table is resolving, followed by the repeated property
IsResolvingList(chain) ==
    \E id \in Scopes :
        /\ tabs[id].recursive # <<>>
        /\ chain = Append(tabs[id].recursive, chain[Len(chain)])
        /\ InSeq(tabs[id].recursive, chain[Len(chain)])

\* the cycle stays in one table: no other table is resolving
InOneScope == Cardinality({id \in Scopes : tabs[id].recursive # <<>>}) = 1

\* the step reads the property names[1] by the text ${name} at top level
ReadsOnCycle(name) ==
    /\ last'.k = "elem"
    /\ last'.n = Read(name)
    /\ Len(frames) = 1
    /\ Holder(2, <<name>>) # 0
    /\ OnCycle(<<Holder(2, <<name>>), <<name>>>>)

CircularRaised == last.raised.kind = "circular"

\* the outcome of a read that met a cycle: the exception reaches the caller
\* of process_doc, no value is returned, and the chain is the resolving
\* list of the detecting table, which for a cycle in one table is a chain
\* of references
CircularOutcome ==
    /\ status = "failed"
    /\ err.cls = "XacroException"
    /\ err.kind = "circular"
    /\ last.val = NoneV
    /\ IsResolvingList(err.info)
    /\ InOneScope => IsResolutionChain(err.info)

\* C1 as the spec states it: whenever a read meets a cycle, the error names
\* the full resolution chain, every link of which is a reference of one
\* property to the next (a -> b -> a).
C1_FullChain == CircularRaised => (status = "failed" /\ IsResolutionChain(err.info))

\* C1, amended: a read of a lazily bound property that lies on a cycle of
\* references fails with the circular-definition error and returns no
\* value; the error names the properties that the table detecting the
\* repetition is resolving, then the repeated property: the full chain
\* (a -> b -> a) when the cycle stays in one table, and only that table's
\* part of it when the cycle passes through a namespace.
C1_Cycle ==
    [][/\ \A name \in {"a", "b", "p"} : ReadsOnCycle(name) => CircularRaised'
       /\ CircularRaised' => CircularOutcome']_vars

\* a read of a met the cycle a -> b -> a
C1_Witness ==
    /\ status = "failed"
    /\ last.n = Read("a")
    /\ err.kind = "circular"
    /\ err.info = <<<<"a">>, <<"b">>, <<"a">>>>

(***************************************************************************)
(* Macro calls                                                             *)
(***************************************************************************)
Top_ == frames[Len(frames)]

\* the last n nodes that replaced visited nodes in the innermost call
LastOut(n) == Sub(Top_.out, Len(Top_.out) - n + 1, Len(Top_.out))

\* the binding that a lookup of name from table id finds
Bound(id, name) == Holder(id, <<name>>) # 0
ValueOf(id, name) == tabs[Holder(id, <<name>>)].d[<<name>>]

\* the calls of the macro wrap, whose only parameter is **stuff
WrapCalls == {n \in PoolMacro.nodes : n.k = "call" /\ n.name = <<"wrap">>}

\* C2 as the spec states it: a call of wrap with several child elements
\* expands, without error, to all the child elements of the call in order.
C2_AllContent ==
    \A n \in WrapCalls :
        Len(n.kids) >= 2 =>
            /\ (last.k = "leave_args" /\ last.n = n) => last.raised = NoErr
            /\ (last.k = "leave_body" /\ last.n = n) => LastOut(Len(n.kids)) = n.kids

\* C2, amended: a ** parameter is bound to the first child element of the
\* call and insert_block inserts the children of that element: a call of
\* wrap with one child element expands to the children of that element in
\* order; a call with several child elements fails (unused block).
C2_OneElement ==
    \A n \in WrapCalls :
        /\ (last.k = "leave_args" /\ last.n = n /\ Len(n.kids) = 1) =>
              /\ last.raised = NoErr
              /\ Top_.kind = "body"
              /\ tabs[Top_.symbols].d[<<"*", "*", "stuff">>] = NodeV(n.kids[1])
        /\ (last.k = "leave_args" /\ last.n = n /\ Len(n.kids) >= 2) =>
              /\ status = "failed"
              /\ err.kind = "unused_block"
              /\ err.info = n.kids[2].tag
        /\ (last.k = "leave_body" /\ last.n = n) =>
              /\ Len(n.kids) = 1
              /\ LastOut(Len(n.kids[1].kids)) = n.kids[1].kids

\* the call <xacro:wrap><c><x/><y/></c></xacro:wrap> is expanded to <x/><y/>
C2_Witness ==
    /\ last.k = "leave_body"
    /\ last.n \in WrapCalls
    /\ status = "run"
    /\ LastOut(2) = <<Elem("x", <<>>, <<>>), Elem("y", <<>>, <<>>)>>

\* the call <xacro:m a="1" c="${a+10}"/>
CallM == Call(<<"m">>, <<<<<<"a">>, <<"1">>>>, <<<<"c">>, Ref(<<"a", "+", "1", "0">>)>>>>, <<>>)

\* the body of the call n of a macro of the input document is evaluated
InBodyOf(n) == Len(frames) = 2 /\ Top_.kind = "body" /\ Top_.node = n

BodyHas(name, val) == Bound(Top_.symbols, name) /\ ValueOf(Top_.symbols, name) = val

\* C3 as the spec states it: called from a scope in which b = 9, the body
\* of m is evaluated, with the bindings a = 1, b = 9, c = 11.
C3_Bindings ==
    /\ (last.k = "call" /\ last.n = CallM /\ Len(frames) <= 2
        /\ Bound(2, "b") /\ ValueOf(2, "b") = IntV(9)) => last.raised = NoErr
    /\ (InBodyOf(CallM) /\ ValueOf(2, "b") = IntV(9)) =>
          BodyHas("a", IntV(1)) /\ BodyHas("b", IntV(9)) /\ BodyHas("c", IntV(11))

\* C3, amended: the attributes of the call are evaluated in the scope of
\* the caller and a default without ^ does not read the caller: called from
\* a scope in which a = 1 and b = 9, the body of m is evaluated with a = 1,
\* b = 2, c = 11 and gives a+b+c = 14; called from a scope in which a is
\* not bound, the call fails, for ${a+10} names an undefined property.
C3_CallerScope ==
    /\ (last.k = "call" /\ last.n = CallM /\ Len(frames) <= 2 /\ Bound(2, "b")) =>
          IF Bound(2, "a") THEN last.raised = NoErr
          ELSE status = "failed" /\ err.cls = "XacroException" /\ err.exc = "NameError"
    /\ (InBodyOf(CallM) /\ ValueOf(2, "b") = IntV(9)) =>
          /\ ValueOf(2, "a") = IntV(1)
          /\ BodyHas("a", IntV(1)) /\ BodyHas("b", IntV(2)) /\ BodyHas("c", IntV(11))
    /\ (last.k = "leave_body" /\ last.n = CallM /\ Len(frames) = 1) =>
          LastOut(1) = <<Elem("o", <<"1", "4">>, <<>>)>>

\* the body of the call is evaluated, the caller binding a = 1 and b = 9
C3_Witness ==
    /\ InBodyOf(CallM)
    /\ ValueOf(2, "b") = IntV(9)
    /\ ValueOf(2, "a") = IntV(1)
    /\ BodyHas("b", IntV(2))
    /\ BodyHas("c", IntV(11))

\* the scope of the call site of the call whose frame is frames[i]
CallSite(i) == frames[i - 1].symbols

\* C4 as the spec states it: for every call, also of a macro reached as
\* ns.name, the attributes and the content of the call are evaluated in
\* the scope of the call site, and the scope of the body is a new table
\* whose parent is the scope of the call site.
C4_CallSiteScope ==
    \A i \in 2..Len(frames) :
        /\ frames[i].kind = "args" =>
              /\ frames[i].symbols = CallSite(i)
              /\ tabs[frames[i].aux.scoped].parent = CallSite(i)
              /\ \A j \in 1..Len(frames[i].node.attrs) :
                    LET a == frames[i].node.attrs[j]
                        r == EvalText(a[2], CallSite(i),
                                      World(tabs, filestack, all_includes, subst_args, launchfile))
                    IN  r.ok /\ tabs[frames[i].aux.scoped].d[a[1]] = EvalLiteral(r.val)
        /\ frames[i].kind = "body" => tabs[frames[i].symbols].parent = CallSite(i)

\* the declarations of the macros m and f: parameter, forward marker, default
Declared ==
    (<<"m">> :> <<[param |-> "a", forward |-> FALSE, default |-> None],
                 [param |-> "b", forward |-> FALSE, default |-> Some(<<"2">>)],
                 [param |-> "c", forward |-> TRUE, default |-> Some(<<"3">>)]>>)
    @@ (<<"f">> :> <<[param |-> "c", forward |-> TRUE, default |-> None]>>)

Supplied(n, param) == \E j \in 1..Len(n.attrs) : n.attrs[j][1] = <<param>>

\* the value that the parameter declared as p takes when the caller, whose
\* scope is table id, does not supply it; NoneV when the call must fail
Expected(p, id) ==
    IF p.forward /\ Bound(id, p.param) THEN ValueOf(id, p.param)
    ELSE IF p.default # None THEN EvalLiteral(StrV(p.default[1]))
    ELSE NoneV

\* the content of the call n of m or f, made in the input document, is
\* evaluated and the parameters that the caller left out are bound
DefaultsBound(n) ==
    /\ last.k = "leave_args"
    /\ last.n = n
    /\ n.name \in DOMAIN Declared
    /\ Len(frames) = 2

Now == World(tabs, filestack, all_includes, subst_args, launchfile)

\* the lazily stored properties that are evaluated by now
Materialized ==
    {u \in DOMAIN defs : u[2] \in DOMAIN tabs[u[1]].d /\ u[2] \notin tabs[u[1]].unevaluated}

\* C6 as the spec states it: a lazily stored property that is materialized
\* holds the value, of the same type, that binding it eagerly at its
\* definition stores.
C6_EagerEqualsLazy ==
    \A u \in Materialized : defs[u].ok /\ defs[u].val = tabs[u[1]].d[u[2]]

IsQuotedText(text) == Len(text) >= 2 /\ text[1] = "'" /\ text[Len(text)] = "'"

\* the step reads, with success, the property that the step before it has
\* stored lazily in the table of the input document
ReadsJustDefined ==
    /\ last.k = "property"
    /\ last.raised = NoErr
    /\ <<2, last.n.name>> \in DOMAIN defs
    /\ last.n.value # None
    /\ ~IsQuotedText(last.n.value[1])
    /\ last'.k = "elem"
    /\ last'.n.v = Ref(last.n.name)
    /\ last'.raised = NoErr

\* C6, amended: when nothing is defined or rebound between the definition
\* of a lazily stored property and its first read, and its text is not a
\* quoted literal, the read materializes the value, of the same type, that
\* binding it eagerly at its definition stores.  (A property that refers to
\* one defined or rebound after it, and the text '1', differ.)
C6_SameState ==
    [][ReadsJustDefined =>
          /\ defs[<<2, last.n.name>>].ok
          /\ last'.val = defs[<<2, last.n.name>>].val
          /\ tabs'[2].d[last.n.name] = defs[<<2, last.n.name>>].val]_vars

\* b = 2, then a = ${b} lazily, then a read of a
C6_Witness ==
    /\ fed = 3
    /\ last.n = Read("a")
    /\ <<2, <<"a">>>> \in Materialized
    /\ defs[<<2, <<"a">>>>] = [ok |-> TRUE, val |-> IntV(2)]
    /\ last.val = IntV(2)

\* the step reads the property name, bound in the table of the input
\* document, by the text ${name}
Reads(name) == last'.k = "elem" /\ last'.n = Read(name) /\ <<name>> \in DOMAIN tabs[2].d

\* C7: the first read of a lazily stored property evaluates its text in the
\* table that holds it, stores the coerced result and takes the name from
\* the unevaluated set; a read of an evaluated property returns the stored
\* value and changes no table, whatever was rebound since.
C7_Once ==
    [][\A name \in {"a", "b"} :
          Reads(name) =>
             LET key == <<name>>
                 r == EvalText(tabs[2].d[key].v, 2, Now)
             IN  IF key \in tabs[2].unevaluated
                 THEN last'.raised = NoErr =>
                         /\ r.ok
                         /\ last'.val = EvalLiteral(r.val)
                         /\ tabs'[2].d[key] = last'.val
                         /\ key \notin tabs'[2].unevaluated
                 ELSE /\ last'.raised = NoErr
                      /\ last'.val = tabs[2].d[key]
                      /\ tabs' = tabs]_vars

\* a = ${b} was read when b was 2; b is 3 now and a read of a returns 2
C7_Witness ==
    /\ last.n = Read("a")
    /\ <<2, <<"a">>>> \in Materialized
    /\ last.val = IntV(2)
    /\ tabs[2].d[<<"a">>] = IntV(2)
    /\ tabs[2].d[<<"b">>] = IntV(3)

(***************************************************************************)
(* Includes                                                                *)
(***************************************************************************)
\* the optional includes of the pool whose files hold plain elements only
PlainOptional ==
    {Include(<<"g", "*">>, None, Some(True)), Include(<<"miss">>, None, Some(True)),
     Include(<<"k">>, None, Some(True))}

\* the files that the include n, met with the present file stack, resolves to
Resolved(n, stack) == IncludeFiles(AbsFilenameSpec(n.filename, stack))

RECURSIVE Contents(_)
Contents(files) ==
    IF files = <<>> THEN <<>>
    ELSE (IF CanOpen(Head(files)) THEN Files[Head(files)].nodes ELSE <<>>)
         \o Contents(Tail(files))

\* the include directive n of the input document is completed
Completed(n) ==
    /\ last.k \in {"include", "leave_include"}
    /\ last.n = n
    /\ last.done
    /\ Len(frames) = 1

\* C8: an optional include skips every resolved file that cannot be opened:
\* no error reaches the caller, the files that can be opened are included
\* in order, and the walk of the including document goes on.
C8_Skip ==
    \A n \in PlainOptional :
        /\ (last.k = "include" /\ last.n = n) => status = "run" /\ err = NoErr
        /\ Completed(n) =>
              /\ status = "run"
              /\ LastOut(Len(Contents(Resolved(n, filestack)))) = Contents(Resolved(n, filestack))
        /\ (Len(frames) = 2 /\ Top_.kind = "include" /\ Top_.node = n) =>
              LET files == Resolved(n, Pop(filestack))
                  i == CHOOSE j \in 1..Len(files) : files[j] = Top_.aux.file
              IN  /\ \E j \in 1..Len(files) : files[j] = Top_.aux.file
                  /\ CanOpen(Top_.aux.file)
                  /\ Top_.aux.included = Contents(Sub(files, 1, i - 1))
                  /\ Top_.aux.rest = From(files, i + 1)

\* the optional include of g* is completed: g1 and g3 are included, g2,
\* which cannot be opened, is skipped
C8_Witness ==
    /\ Completed(Include(<<"g", "*">>, None, Some(True)))
    /\ status = "run"
    /\ Resolved(last.n, filestack) = <<InD(<<"g", "1">>), InD(<<"g", "2">>), InD(<<"g", "3">>)>>
    /\ LastOut(2) = <<Elem("g", <<"1">>, <<>>), Elem("g", <<"3">>, <<>>)>>

\* C9 as the spec states it: optional suppresses only the failure to open
\* the file of the include itself; any other exception raised in a handler
\* reaches the caller of process_doc.
C9_OnlyOwnFile ==
    (last.raised # NoErr /\ last.caught # "self") =>
        status = "failed" /\ err = last.raised

\* the files of the includes that are being evaluated, outermost first
RECURSIVE OpenFiles(_)
OpenFiles(fr) ==
    IF fr = <<>> THEN <<>>
    ELSE (IF Head(fr).kind = "include" THEN <<Head(fr).aux.file>> ELSE <<>>)
         \o OpenFiles(Tail(fr))

\* C10 as the spec states it: while the walk goes on, the file stack holds
\* the input document and the files of the includes being evaluated, so
\* that its last element is the file being evaluated and every push of an
\* include or of load_yaml is matched by one pop.
C10_FileStack == status = "run" => filestack = <<TopFile>> \o OpenFiles(frames)

(***************************************************************************)
(* Documents processed one after the other                                 *)
(***************************************************************************)
\* the process-wide state in which the processing of a document starts in a
\* new process that was given the mappings of the command line
FreshProcess ==
    /\ all_includes = <<>>
    /\ subst_args = cmdline
    /\ filestack = <<TopFile>>
    /\ macrostack = <<>>
    /\ tabs = <<RootDict, NewTable("Table", Root)>>
    /\ mtabs = <<MTable(0)>>

\* C11 as the spec states it: the processing of a second document starts in
\* the state in which it starts when the document is processed alone, so
\* that no arg default, include record or stack entry of the first document
\* is observable and the second document gives what it gives alone.
C11_Isolated == last.k = "process_file" => FreshProcess

(***************************************************************************)
(* The output of a run, evaluated once more                                *)
(***************************************************************************)
\* the document that process_doc leaves
Output == frames[1].out

\* the nodes hold no directive: every node is an element that is not of
\* the macro namespace
RECURSIVE IsPlain(_)
IsPlain(nodes) ==
    \A i \in 1..Len(nodes) : nodes[i].k = "elem" /\ IsPlain(nodes[i].kids)

\* the tables and stacks in which process_doc starts on the output
FreshWorld ==
    World(<<RootDict, NewTable("Table", Root)>>, <<TopFile>>, <<>>, cmdline, launchfile)

\* eval_all on plain elements in new tables: each attribute is set to the
\* text of its evaluation (no property is bound, so that no evaluation
\* changes a table); the result is [ok, nodes]
RECURSIVE Reeval(_)
Reeval(nodes) ==
    IF nodes = <<>> THEN [ok |-> TRUE, nodes |-> <<>>]
    ELSE LET n == Head(nodes)
             r == EvalText(n.v, 2, FreshWorld)
             k == Reeval(n.kids)
             t == Reeval(Tail(nodes))
         IN  IF r.ok /\ k.ok /\ t.ok
             THEN [ok |-> TRUE,
                   nodes |-> <<[n EXCEPT !.v = ToText(r.val), !.kids = k.nodes]>> \o t.nodes]
             ELSE [ok |-> FALSE, nodes |-> <<>>]

OpensToken(t) == \E i \in 1..(Len(t) - 1) : t[i] = "$" /\ t[i + 1] \in {"{", "(", "$"}

RECURSIVE HasOpenToken(_)
HasOpenToken(nodes) ==
    \E i \in 1..Len(nodes) : OpensToken(nodes[i].v) \/ HasOpenToken(nodes[i].kids)

Escaped(N, b) == Dollars(N) \o <<b, "x", IF b = "{" THEN "}" ELSE ")">>

\* C13: for N >= 1, the text of N+1 dollar signs followed by {x} or (x)
\* evaluates to the text of N dollar signs followed by the same: the
\* evaluation succeeds whether x is bound or not, looks up no symbol and
\* changes no table (a lazily bound x stays unevaluated).
C13_Escape ==
    [][\A N \in 1..(MaxDollars - 1), b \in {"{", "("} :
          (last'.k = "elem" /\ last'.n.v = Escaped(N + 1, b)) =>
              /\ last'.raised = NoErr
              /\ last'.val = StrV(Escaped(N, b))
              /\ EvalText(Escaped(N + 1, b), 2, Now) = Ok(StrV(Escaped(N, b)), Now)
              /\ tabs' = tabs]_vars

\* $$${x} was evaluated to $${x} while x is bound lazily and not evaluated
C13_Witness ==
    /\ last.k = "elem"
    /\ last.n.v = Escaped(3, "{")
    /\ last.val = StrV(Escaped(2, "{"))
    /\ <<"x">> \in tabs[2].unevaluated
    /\ Output[Len(Output)] = Elem("e", Escaped(2, "{"), <<>>)

(***************************************************************************)
(* The coercion of raw property values                                     *)
(***************************************************************************)
\* the coercion ladder on the raw texts: integer, float, boolean, else the
\* text; a text with an underscore is kept
Ladder(t) ==
    CASE t = <<"7">> -> IntV(7)
      [] t = <<"1", ".", "5">> -> FloatV(1, <<"5">>)
      [] t = True -> BoolV(TRUE)
      [] OTHER -> StrV(t)

\* the step binds the property n, lazily or eagerly, to the raw text t
BindsRaw(t) ==
    /\ last'.k = "property"
    /\ last'.n.name = <<"n">>
    /\ last'.n.value = Some(t)

\* the step reads the property n that the step before it has bound to t
ReadsRaw(t) ==
    /\ last.k = "property"
    /\ last.n.name = <<"n">>
    /\ last.n.value = Some(t)
    /\ last'.k = "elem"
    /\ last'.n = Read("n")

\* C14 as the spec states it: the raw value 1_000 is bound to that text,
\* when it is inserted and after its first read; every raw text without an
\* underscore is bound to what the ladder integer, float, boolean, else
\* the text itself, gives.
C14_Ladder ==
    [][\A t \in RawTexts :
          /\ BindsRaw(t) => last'.raised = NoErr /\ tabs'[2].d[<<"n">>] = Ladder(t)
          /\ ReadsRaw(t) => last'.raised = NoErr /\ last'.val = Ladder(t)]_vars

\* the text between the single quotes of a quoted text
Unquoted(t) == Sub(t, 2, Len(t) - 1)

\* C14, amended: the raw value 1_000 is bound to that text, when it is
\* inserted and after its first read.  A raw text in single quotes is
\* bound to the text between the quotes; its first read coerces that text
\* by the ladder when the binding is lazy ('7' reads as the integer 7) and
\* returns the text when the binding is eager.  Every other raw text
\* without an underscore is bound to what the ladder integer, float,
\* boolean, else the text itself, gives.
C14_Literal ==
    [][\A t \in RawTexts :
          LET lazy == last.n.lazy_eval = None
              quoted == IsQuoted(t)
          IN  /\ BindsRaw(t) =>
                    /\ last'.raised = NoErr
                    /\ tabs'[2].d[<<"n">>] = IF IsQuoted(t) THEN StrV(Unquoted(t)) ELSE Ladder(t)
              /\ ReadsRaw(t) =>
                    /\ last'.raised = NoErr
                    /\ last'.val = IF quoted /\ lazy THEN Ladder(Unquoted(t))
                                   ELSE IF quoted THEN StrV(Unquoted(t))
                                   ELSE Ladder(t)
                    /\ tabs'[2].d[<<"n">>] = last'.val]_vars

\* n was bound lazily to 1_000 and its first read has returned that text
C14_Witness ==
    /\ last.k = "elem"
    /\ last.n = Read("n")
    /\ last.val = StrV(<<"1", "_", "0", "0", "0">>)
    /\ tabs[2].d[<<"n">>] = StrV(<<"1", "_", "0", "0", "0">>)
    /\ <<"n">> \notin tabs[2].unevaluated
    /\ fed = 2

(***************************************************************************)
(* Deleting a property                                                     *)
(***************************************************************************)
\* the tables from table id up to the root, without the root
RECURSIVE Chain(_, _)
Chain(tbs, id) == IF tbs[id].kind = "dict" THEN {} ELSE {id} \cup Chain(tbs, tbs[id].parent)

\* the scope in which the step's directive is met
ScopeOfStep == frames[Len(frames)].symbols

\* the step meets a property directive with remove="true" for a name that
\* its scope binds or inherits: it deletes the name through that scope
Deletes(k) ==
    /\ last'.k = "property"
    /\ last'.n = Remove(k)
    /\ Contains(tabs, ScopeOfStep, <<k>>)

\* C15: deleting k through scope S removes k from S and from every ancestor
\* of S but the root and changes nothing else; the root keeps its binding;
\* a lookup of k from S then gives the root's value if the root binds k and
\* else fails, k being unknown.
C15_Delete ==
    [][\A k \in {"a", "load_yaml"} :
          Deletes(k) =>
             LET S == ScopeOfStep
                 r == GetItem(S, <<k>>, World(tabs', filestack', all_includes', subst_args', launchfile))
             IN  /\ last'.raised = NoErr
                 /\ \A T \in Chain(tabs, S) : <<k>> \notin DOMAIN tabs'[T].d
                 /\ \A T \in Chain(tabs, S) : tabs'[T].d = Drop(tabs[T].d, <<k>>)
                 /\ \A T \in (1..Len(tabs)) \ Chain(tabs, S) : tabs'[T] = tabs[T]
                 /\ Len(tabs') = Len(tabs)
                 /\ IF <<k>> \in DOMAIN tabs[Root].d
                    THEN r.ok /\ r.val = tabs[Root].d[<<k>>]
                    ELSE ~r.ok /\ r.err.cls = "KeyError"]_vars

\* the body of the macro d has deleted a, which the input document had
\* bound: neither the table of the body nor that of the document binds it
C15_Witness ==
    /\ last.k = "property"
    /\ last.n = Remove("a")
    /\ Len(frames) = 2
    /\ frames[2].kind = "body"
    /\ tabs[frames[2].symbols].parent = 2
    /\ <<"*", "*", "a">> \notin DOMAIN tabs[frames[2].symbols].d
    /\ \A T \in Chain(tabs, frames[2].symbols) : <<"a">> \notin DOMAIN tabs[T].d
    /\ last.raised = NoErr
    /\ \E i \in 1..Len(all_includes) : all_includes[i] = InD(<<"del">>)

\* C16 as the spec states it: a property directive with remove="true" only
\* deletes: whether its name is bound or not, the step adds no binding, of
\* the name or of the block key **name, to any table.
C16_OnlyDeletes ==
    [][\A k \in {"a", "load_yaml"} :
          (last'.k = "property" /\ last'.n = Remove(k)) =>
              /\ last'.raised = NoErr
              /\ Len(tabs') = Len(tabs)
              /\ \A T \in 1..Len(tabs) : DOMAIN tabs'[T].d \subseteq DOMAIN tabs[T].d]_vars

(***************************************************************************)
(* Conditionals                                                            *)
(***************************************************************************)
NextCond ==
    \/ VisitConditional(PoolCond, Conditional)
    \/ LeaveConditional(ConditionalExit)
    \/ VisitElement(PoolCond, EvalElement)
    \/ Finish

SpecCond == Init /\ [][NextCond]_vars

\* the same conditional under the other tag
Other(n) == [n EXCEPT !.tag = IF @ = "if" THEN "unless" ELSE "if"]

\* the step kept the conditional's children: eval_all walks them next
Kept(n, before, after) ==
    /\ Len(after) = Len(before) + 1
    /\ after[Len(after)].kind = "cond"
    /\ after[Len(after)].todo = n.kids

\* the step produced nothing for the conditional
Dropped(before, after) ==
    /\ Len(after) = Len(before)
    /\ after[Len(after)].out = before[Len(before)].out

\* a conditional step behaves as the coercion (fails, truth) says, and the
\* same conditional under the other tag, evaluated in the same state,
\* behaves the opposite way
CondStep(fails(_), truth(_)) ==
    last'.k = "cond" =>
        LET n == last'.n
            r == EvalText(n.value, frames[Len(frames)].symbols, WorldOf(St))
            o == Conditional(Other(n), Taken)
            bad == Xacro("conditional", ToText(r.val))
        IN  r.ok =>
              IF fails(r.val)
              THEN last'.raised = bad /\ o.raised = bad
              ELSE /\ last'.raised = NoErr /\ o.raised = NoErr
                   /\ IF (n.tag = "if") = truth(r.val)
                      THEN Kept(n, Taken.frames, frames') /\ Dropped(Taken.frames, o.frames)
                      ELSE Dropped(Taken.frames, frames') /\ Kept(n, Taken.frames, o.frames)

\* the ladder applied to every value: true/True, false/False, otherwise
\* bool(int(x)); whatever int() does not take fails
LadderFails(x) ==
    IF IsStr(x) THEN x.v \notin TrueTexts \cup FalseTexts /\ ~IsIntText(x.v)
    ELSE x.t \notin {"int", "float", "bool"}

LadderTruth(x) ==
    CASE IsStr(x) /\ x.v \in TrueTexts -> TRUE
      [] IsStr(x) /\ x.v \in FalseTexts -> FALSE
      [] IsStr(x) /\ x.v \notin TrueTexts \cup FalseTexts -> IntOfText(x.v) # 0
      [] x.t = "int" -> x.v # 0
      [] x.t = "float" -> x.v[1] # 0
      [] x.t = "bool" -> x.v
      [] OTHER -> FALSE

\* the ladder for texts only; a value that is no text never fails and is
\* true unless it is zero, False or None
TextFails(x) ==
    IsStr(x) /\ x.v \notin TrueTexts \cup FalseTexts /\ ~IsIntText(x.v)

OwnTruth(x) ==
    CASE IsStr(x) -> LadderTruth(x)
      [] x.t = "int" -> x.v # 0
      [] x.t = "float" -> x.v # <<0, <<>>>>
      [] x.t = "bool" -> x.v
      [] x.t = "none" -> FALSE
      [] OTHER -> TRUE

NextArg ==
    \/ VisitArg(PoolArg, GrabArg)
    \/ VisitElement(PoolArg, EvalElement)
    \/ Finish

SpecArg == Init /\ [][NextArg]_vars

\* xacro:arg on a name of the context changes nothing; on a new name it
\* adds the text of the evaluated default, or fails as the evaluation does;
\* in each case no node is produced for the element
ArgStep ==
    last'.k = "arg" =>
        LET n == last'.n
            r == EvalText(n.default, frames[Len(frames)].symbols, WorldOf(St))
        IN  /\ n.name \in DOMAIN subst_args =>
                    last'.raised = NoErr /\ subst_args' = subst_args
            /\ n.name \notin DOMAIN subst_args /\ r.ok =>
                    /\ last'.raised = NoErr
                    /\ subst_args' = Put(subst_args, n.name, ToText(r.val))
            /\ n.name \notin DOMAIN subst_args /\ ~r.ok =>
                    last'.raised = r.err /\ subst_args' = subst_args
            /\ last'.raised = NoErr => Dropped(Taken.frames, frames')

\* outside launch mode the read of $(arg size) gives the entry of the context
ArgRead ==
    (last'.k = "elem" /\ last'.n.v = ArgSize /\ ~launchfile
        /\ <<"size">> \in DOMAIN subst_args) =>
        /\ last'.raised = NoErr
        /\ frames'[Len(frames')].out =
               Append(frames[Len(frames)].out,
                      Elem("b", subst_args[<<"size">>], <<>>))

\* C18: xacro:arg sets the entry of its name to the text of the evaluated
\* default only when the context does not hold the name: an entry of the
\* caller's mappings (size:=42) or of an earlier xacro:arg is never
\* overwritten, so that $(arg size) gives 42 when supplied and otherwise
\* the default declared first; the arg element is removed.
C18_ArgOnce ==
    [][/\ ArgStep
       /\ ArgRead
       /\ (status' = "run" /\ <<"size">> \in DOMAIN cmdline) =>
              subst_args'[<<"size">>] = <<"4", "2">>
       /\ (status = "run" /\ status' = "run" /\ <<"size">> \in DOMAIN subst_args) =>
              (<<"size">> \in DOMAIN subst_args'
                  /\ subst_args'[<<"size">>] = subst_args[<<"size">>])]_vars

\* size:=42 was supplied, the declaration with default 10 is gone and
\* $(arg size) has given 42
C18_Witness ==
    /\ cmdline = InitArgs
    /\ ~launchfile
    /\ fed = 2
    /\ status = "run"
    /\ last.k = "elem"
    /\ frames[1].out = <<Elem("b", <<"4", "2">>, <<>>)>>
    /\ subst_args = InitArgs

\* no size was supplied: the first declaration's default 10 stays against a
\* later declaration with default 20 and is what $(arg size) gives
C18_WitnessDefault ==
    /\ cmdline = EmptyMap
    /\ ~launchfile
    /\ fed = 3
    /\ last.k = "elem"
    /\ frames[1].out = <<Elem("b", <<"1", "0">>, <<>>)>>
    /\ subst_args = (<<"size">> :> <<"1", "0">>)

(***************************************************************************)
(* Inserted blocks                                                         *)
(***************************************************************************)
NextBlock ==
    \/ VisitElement(PoolBlock, EvalElement)
    \/ VisitProperty(PoolBlock, GrabProperty)
    \/ VisitMacro(PoolBlock, GrabMacro)
    \/ VisitCall(PoolBlock, MacroCall)
    \/ VisitInsertBlock(PoolBlock, InsertBlock)
    \/ VisitInclude(PoolBlock, ProcessInclude)
    \/ LeaveElement(ElementExit)
    \/ LeaveArgs(ArgsDone)
    \/ LeaveBody(BodyExit)
    \/ LeaveBlock(BlockExit)
    \/ LeaveInclude(IncludeExit)
    \/ Finish

SpecBlock == Init /\ [][NextBlock]_vars

\* the elements that the tables bind
Blocks(tt) ==
    {<<T, key>> \in UNION {{T} \X DOMAIN tt[T].d : T \in 1..Len(tt)} :
        tt[T].d[key].t = "node"}

\* no bound element differs after the step
BlocksKept ==
    \A b \in Blocks(tabs) :
        /\ b[1] <= Len(tabs') /\ b[2] \in DOMAIN tabs'[b[1]].d
        => tabs'[b[1]].d[b[2]] = tabs[b[1]].d[b[2]]

\* insert_block starts the evaluation of a copy of the element bound to
\* **name, else of the one bound to *name, and fails without either
InsertStep ==
    last'.k = "insert_block" =>
        LET n == last'.n
            id == frames[Len(frames)].symbols
            many == <<"*", "*">> \o n.name
            one == <<"*">> \o n.name
            key == IF Holder(id, many) # 0 THEN many ELSE one
            T == Holder(id, key)
            f == frames'[Len(frames')]
        IN  IF T = 0
            THEN last'.raised = Xacro("undefined_block", n.name)
            ELSE /\ last'.raised = NoErr
                 /\ Len(frames') = Len(frames) + 1
                 /\ f.kind = "block"
                 /\ f.todo = tabs[T].d[key].v.kids
                 /\ f.out = <<>>
                 /\ f.aux.content_only = (key = many)
                 /\ tabs'[T].d[key] = tabs[T].d[key]

\* at the end of the evaluation the insert_block element is replaced by
\* the evaluated children of the copy, or by the copy around them
SpliceStep ==
    last'.k = "leave_block" =>
        LET f == frames[Len(frames)]
            made == IF f.aux.content_only THEN f.out
                    ELSE <<[f.node EXCEPT !.kids = f.out]>>
        IN  /\ Len(frames') = Len(frames) - 1
            /\ frames'[Len(frames')].out = frames[Len(frames) - 1].out \o made

\* an inserted copy is being evaluated
InBlock(ff) == \E i \in 1..Len(ff) : ff[i].kind = "block"

\* C19: insert_block splices the children of a copy of the element bound to
\* **name, the copy of the element bound to *name itself, and fails when
\* neither is bound; no step of an insertion changes a bound element, so
\* that every insert_block of the name starts from the same content.
C19_Clone ==
    [][/\ InsertStep
       /\ SpliceStep
       /\ (InBlock(frames) \/ InBlock(frames')) => BlocksKept]_vars

\* the body of twice has inserted its block *b two times: the call is
\* replaced by two copies of <c v="1"><x/><y/></c>
C19_Witness ==
    /\ last.k = "leave_body"
    /\ last.n = Call(<<"twice">>, <<>>, <<BlockC>>)
    /\ Len(frames) = 1
    /\ LastOut(2) = <<BlockC, BlockC>>

\* the body of tw2 has inserted its block **b two times: the call is
\* replaced by two copies of <x/><y/>
C19_WitnessMany ==
    /\ last.k = "leave_body"
    /\ last.n = Call(<<"tw2">>, <<>>, <<BlockC>>)
    /\ Len(frames) = 1
    /\ LastOut(4) = BlockC.kids \o BlockC.kids

(***************************************************************************)
(* The arity of a macro call                                               *)
(***************************************************************************)
NextArity ==
    \/ VisitElement(PoolArity, EvalElement)
    \/ VisitProperty(PoolArity, GrabProperty)
    \/ VisitMacro(PoolArity, GrabMacro)
    \/ VisitCall(PoolArity, MacroCall)
    \/ VisitInsertBlock(PoolArity, InsertBlock)
    \/ VisitInclude(PoolArity, ProcessInclude)
    \/ LeaveElement(ElementExit)
    \/ LeaveArgs(ArgsDone)
    \/ LeaveBody(BodyExit)
    \/ LeaveBlock(BlockExit)
    \/ LeaveInclude(IncludeExit)
    \/ Finish

SpecArity == Init /\ [][NextArity]_vars

IsBlockParam(q) == q[1] = "*"

IsPlainParam(q) == q[1] # "*"

\* the step failed with e and left the call where it was: nothing replaced
\* it and the body was not entered
CallFailed(e, before) ==
    /\ last'.raised = e
    /\ status' = "failed"
    /\ err' = e
    /\ frames' = before

\* the call of a known macro with an attribute that names no parameter
\* fails: with the invalid-parameter error, unless the value of an
\* attribute before it cannot be evaluated
InvalidStep ==
    last'.k = "call" =>
        LET n == last'.n
            f == frames[Len(frames)]
            g == MGet(mtabs, f.macros, n.name)
            bad == {j \in 1..Len(n.attrs) : ~InSeq(g[2].params, n.attrs[j][1])}
            j0 == CHOOSE j \in bad : \A i \in bad : j <= i
        IN  (g[1] /\ g[2].t = "Macro" /\ bad # {}) =>
                /\ CallFailed(last'.raised, Taken.frames)
                /\ last'.raised # NoErr
                /\ (\A j \in 1..(j0 - 1) :
                        EvalText(n.attrs[j][2], f.symbols, WorldOf(St)).ok)
                   => last'.raised = Xacro("invalid_parameter", n.attrs[j0][1])

\* at the end of the call's content: too few or too many child elements
\* for the block parameters, or a plain parameter that is neither supplied
\* nor has a default or a forward, make the call fail; a call that does not
\* fail enters the body with every parameter bound in the body's scope
BindStep ==
    last'.k = "leave_args" =>
        LET f == frames[Len(frames)]
            n == f.node
            mac == f.aux.m
            supplied(q) == \E j \in 1..Len(n.attrs) : n.attrs[j][1] = q
            unsupplied(q) == ~supplied(q)
            hasdefault(q) == /\ q \in DOMAIN mac.defaultmap
                             /\ (mac.defaultmap[q].forward # None
                                    \/ mac.defaultmap[q].default # None)
            required(q) == ~hasdefault(q)
            left == SelectSeq(mac.params, unsupplied)
            blocks == SelectSeq(left, IsBlockParam)
            plain == SelectSeq(left, IsPlainParam)
            missing == SelectSeq(plain, required)
            defaulted == SelectSeq(plain, hasdefault)
            top == frames'[Len(frames')]
        IN  /\ Len(f.out) < Len(blocks) =>
                  CallFailed(Xacro("not_enough_blocks", blocks[Len(f.out) + 1]), frames)
            /\ Len(f.out) > Len(blocks) =>
                  CallFailed(Xacro("unused_block", f.out[Len(blocks) + 1].tag), frames)
            /\ (Len(f.out) = Len(blocks) /\ missing # <<>>) =>
                  /\ CallFailed(last'.raised, frames)
                  /\ last'.raised # NoErr
                  /\ (\A i \in 1..Len(defaulted) :
                          eval_default_arg(mac.defaultmap[defaulted[i]].forward,
                                           mac.defaultmap[defaulted[i]].default,
                                           f.symbols, WorldOf(St)).ok)
                     => last'.raised = Xacro("undefined_parameters", missing)
            /\ last'.raised = NoErr =>
                  /\ Len(frames') = Len(frames)
                  /\ top.kind = "body"
                  /\ top.todo = mac.body
                  /\ top.out = <<>>
                  /\ \A i \in 1..Len(mac.params) :
                         mac.params[i] \in DOMAIN tabs'[top.symbols].d

\* C20: a macro call fails with an arity error, and nothing replaces the
\* call, when an attribute names no parameter, when there are fewer child
\* elements than block parameters, when child elements are left after the
\* block parameters are bound, and when a plain parameter without default
\* or forward is not supplied (the arity error is the one raised where the
\* evaluation of the attributes, content and defaults before it succeeds);
\* in every other case all parameters are bound before the body is
\* evaluated.
C20_Arity == [][InvalidStep /\ BindStep]_vars

\* <xacro:wrap/> without a child element for **stuff has failed
C20_Witness ==
    /\ status = "failed"
    /\ last.k = "leave_args"
    /\ last.n = Call(<<"wrap">>, <<>>, <<>>)
    /\ err = Xacro("not_enough_blocks", <<"*", "*", "stuff">>)
    /\ frames[1].out = <<>>

\* <xacro:m z="1"/> has failed: z is no parameter of m
C20_WitnessInvalid ==
    /\ status = "failed"
    /\ last.k = "call"
    /\ err = Xacro("invalid_parameter", <<"z">>)

\* <xacro:wrap><x/><y/></xacro:wrap> has failed: <y/> is left
C20_WitnessUnused ==
    /\ status = "failed"
    /\ last.k = "leave_args"
    /\ err = Xacro("unused_block", "y")

\* <xacro:u/> has failed: p is not supplied
C20_WitnessUndefined ==
    /\ status = "failed"
    /\ last.k = "leave_args"
    /\ last.n = Call(<<"u">>, <<>>, <<>>)
    /\ err = Xacro("undefined_parameters", <<<<"p">>>>)

\* <xacro:twice><c/></xacro:twice> has entered its body with *b bound
C20_WitnessBound ==
    /\ status = "run"
    /\ last.k = "leave_args"
    /\ last.n = Call(<<"twice">>, <<>>, <<BlockC>>)
    /\ frames[Len(frames)].kind = "body"
    /\ tabs[frames[Len(frames)].symbols].d[<<"*", "b">>] = NodeV(BlockC)

(***************************************************************************)
(* The lexer alone                                                         *)
(***************************************************************************)
\* the characters of the texts given to the lexer
Alphabet == {"$", "{", "}", "(", ")", "a"}

Texts == UNION {[1..n -> Alphabet] : n \in 0..MaxLen}

\* lex.lex(text), on a new lexer
Lex ==
    /\ lex.state = "new"
    /\ \E text \in Texts : lex' = LexerLex(lex, text)
    /\ UNCHANGED walker

\* lex.next(), called while lex.peek() gives a token
LexNext ==
    /\ lex.state = "run"
    /\ lex.top # NoTop
    /\ lex' = LexerNext(lex)
    /\ UNCHANGED walker

NextLex == Lex \/ LexNext

SpecLex == Init /\ [][NextLex]_vars

\* the token texts of the four rules
IsDollarDollarBrace(t) ==
    /\ Len(t) >= 3
    /\ \A i \in 1..(Len(t) - 1) : t[i] = "$"
    /\ t[Len(t)] \in {"{", "("}

IsEnclosed(t, open, close) ==
    /\ Len(t) >= 3
    /\ t[1] = "$" /\ t[2] = open /\ t[Len(t)] = close
    /\ \A i \in 3..(Len(t) - 1) : t[i] # close

\* a run without "$", or "$" and a run without "{", "(", "$", or the "$"
\* that ends the text s
IsTextToken(t, s) ==
    \/ t # <<>> /\ \A i \in 1..Len(t) : t[i] # "$"
    \/ Len(t) >= 2 /\ t[1] = "$" /\ \A i \in 2..Len(t) : t[i] \notin {"{", "(", "$"}
    \/ t = <<"$">> /\ s = t

\* the rule matches the start t of the text s
Pattern(rule, t, s) ==
    CASE rule = DOLLAR_DOLLAR_BRACE -> IsDollarDollarBrace(t)
      [] rule = EXPR -> IsEnclosed(t, "{", "}")
      [] rule = EXTENSION -> IsEnclosed(t, "(", ")")
      [] rule = TEXT -> IsTextToken(t, s)
      [] OTHER -> FALSE

\* the lengths of the prefixes of s that the rule matches
Prefixes(rule, s) == {n \in 1..Len(s) : Pattern(rule, Sub(s, 1, n), s)}

\* the token tok is what the first matching rule takes from the start of s:
\* no rule before it matches there, and the token is the shortest "${...}"
\* or "$(...)" and else the longest match of its rule
FirstRule(tok, s) ==
    /\ tok[1] \in {DOLLAR_DOLLAR_BRACE, EXPR, EXTENSION, TEXT}
    /\ Len(tok[2]) \in Prefixes(tok[1], s)
    /\ tok[2] = Sub(s, 1, Len(tok[2]))
    /\ \A r \in 0..(tok[1] - 1) : Prefixes(r, s) = {}
    /\ \A n \in Prefixes(tok[1], s) :
           IF tok[1] \in {EXPR, EXTENSION} THEN Len(tok[2]) <= n ELSE n <= Len(tok[2])

RECURSIVE Concat(_)
Concat(toks) == IF toks = <<>> THEN <<>> ELSE Head(toks)[2] \o Concat(Tail(toks))

\* the tokens returned and the one on top
Lexed(x) == IF x.top = NoTop THEN x.out ELSE Append(x.out, x.top)

\* tokens, top and rest are the given text
Whole(x) == Concat(Lexed(x)) \o x.str = x.given

\* C21: lexing terminates on every text (each next() shortens the rest) and
\* either splits the whole text into tokens that concatenate to it, each
\* the match of the first rule that matches in the order
\* DOLLAR_DOLLAR_BRACE, EXPR, EXTENSION, TEXT, or fails with an error that
\* names the rest no rule matches; no text is left partly lexed without
\* an error.
C21_Lexing ==
    [][/\ lex'.state = "run" =>
              /\ Whole(lex')
              /\ FirstRule(lex'.top, lex'.top[2] \o lex'.str)
              /\ lex.state = "run" => Len(lex'.str) < Len(lex.str)
       /\ lex'.state = "end" => lex'.str = <<>> /\ Concat(lex'.out) = lex'.given
       /\ lex'.state = "raised" =>
              /\ lex'.raised = lex'.str /\ lex'.raised # <<>>
              /\ lex'.raised = From(lex'.given, Len(lex'.given) - Len(lex'.raised) + 1)
              /\ \A r \in {DOLLAR_DOLLAR_BRACE, EXPR, EXTENSION, TEXT} :
                     Prefixes(r, lex'.raised) = {}
       /\ lex.state \in {"end", "raised"} => lex' = lex]_vars

\* "a$$a" has failed after the token a was lexed: the error names "$$a"
C21_Witness ==
    /\ lex.state = "raised"
    /\ lex.given = <<"a", "$", "$", "a">>
    /\ lex.out = <<>>
    /\ lex.raised = <<"$", "$", "a">>

\* "$${a" is lexed whole: the escape "$${" and the text "a"
C21_WitnessTokens ==
    /\ lex.state = "end"
    /\ lex.out = <<<<DOLLAR_DOLLAR_BRACE, <<"$", "$", "{">>>>, <<TEXT, <<"a">>>>>>

(***************************************************************************)
(* The value of a text                                                     *)
(***************************************************************************)
NextTyped ==
    \/ VisitElement(PoolTyped, EvalElement)
    \/ Finish

SpecTyped == Init /\ [][NextTyped]_vars

\* the values of the tokens of a text that lexes, in the order of the text
TokenValues(text) ==
    IF text = <<>> THEN <<>>
    ELSE EvalLoop(FirstMatch(text), text, frames[Len(frames)].symbols, WorldOf(St), <<>>).val

IsNonEmpty(x) == x # StrV(<<>>)

\* the step evaluated the attribute of an element of the pool
TypedStep(Value(_)) ==
    (last'.k = "elem" /\ last'.n \in PoolTyped.nodes) =>
        /\ last'.raised = NoErr
        /\ last'.val = Value(TokenValues(last'.n.v))

\* the only value that is not the empty text, else the joined texts
OneNonEmpty(vals) ==
    IF Len(SelectSeq(vals, IsNonEmpty)) = 1 THEN SelectSeq(vals, IsNonEmpty)[1]
    ELSE StrV(JoinTexts(vals))

\* the only value, else the joined texts
OneToken(vals) == IF Len(vals) = 1 THEN vals[1] ELSE StrV(JoinTexts(vals))

\* C22 as the spec states it: the value of a text is the typed value of its
\* only non-empty token ("${1+1}" and "${1+1}${''}" give the integer 2), and
\* otherwise the concatenation of the texts of all token values, in order.
C22_NonEmpty == [][TypedStep(OneNonEmpty)]_vars

\* C22, amended: the value of a text is the typed value of its token when
\* the text is exactly one token, whatever that value is ("${1+1}" gives
\* the integer 2, "${''}" the empty text); every other text, the empty one
\* and one whose other tokens have the empty text as value included, gives
\* the concatenation of the texts of all token values, in order
\* ("${1+1}${''}" gives the text "2", " ${1+1}" the text " 2").
C22_OneToken == [][TypedStep(OneToken)]_vars

\* "${1+1}" has given the integer 2 and then " ${1+1}" the text " 2"
C22_Witness ==
    /\ fed = 2
    /\ last.k = "elem"
    /\ last.n.v = <<" ">> \o Ref(<<"1", "+", "1">>)
    /\ last.val = StrV(<<" ", "2">>)
    /\ frames[1].out = <<Elem("e", <<"2">>, <<>>), Elem("e", <<" ", "2">>, <<>>)>>

(***************************************************************************)
(* The evaluation of comments                                              *)
(***************************************************************************)
NextComment ==
    \/ VisitComment(PoolComment, EvalComment)
    \/ VisitText(PoolComment, EvalTextNode)
    \/ VisitElement(PoolComment, EvalElement)
    \/ LeaveElement(ElementExit)
    \/ Finish

SpecComment == Init /\ [][NextComment]_vars

\* among what the call has met since the last element, a pragma
\* xacro:eval-comments is followed by nothing that resets it
PragmaActive(seen, Resets(_)) ==
    \E i \in 1..Len(seen) :
        seen[i] = "on" /\ \A j \in (i + 1)..Len(seen) : ~Resets(seen[j])

\* a pragma comment is dropped; any other comment is emitted with its data
\* evaluated where a pragma is active, and as it is otherwise
CommentStep(Resets(_)) ==
    last'.k = "comment" =>
        LET n == last'.n
            f == frames[Len(frames)]
            r == EvalText(n.data, f.symbols, WorldOf(St))
            out == frames'[Len(frames')].out
        IN  /\ Len(frames') = Len(frames)
            /\ IF IsPragma(n.data) THEN out = f.out
               ELSE IF ~PragmaActive(f.seen, Resets) THEN out = Append(f.out, n)
               ELSE r.ok => out = Append(f.out, Comment(ToText(r.val)))

\* every child that is no comment resets the pragma
AnyChildResets(x) == x \in {"off", "text", "space"}

\* text that is blank after its evaluation does not reset the pragma
TextResets(x) == x \in {"off", "text"}

C23_WitnessNested ==
    /\ fed = 2
    /\ last.k = "leave_elem"
    /\ Len(frames) = 1
    /\ frames[1].out = <<Elem("e", <<>>, <<Comment(Ref(<<"1", "+", "1">>))>>)>>

(***************************************************************************)
(* The nesting of macro calls and includes                                 *)
(***************************************************************************)
NextDepth ==
    \/ VisitElement(PoolDepth, EvalElement)
    \/ VisitMacro(PoolDepth, GrabMacro)
    \/ VisitCall(PoolDepth, MacroCall)
    \/ VisitInclude(PoolDepth, ProcessInclude)
    \/ LeaveArgs(ArgsDone)
    \/ LeaveBody(BodyExit)
    \/ LeaveInclude(IncludeExit)
    \/ Finish

SpecDepth == Init /\ [][NextDepth]_vars

\* the macro calls and includes that are being expanded
Nesting == Len(macrostack) + Len(filestack) - 1

\* C24: the depth of nested macro expansions and includes never exceeds
\* the bound of the recursion guard; an input that nests deeper, such as a
\* macro that calls itself, is rejected with an evaluation failure.  The
\* guard's bound is taken two below the depth at which the model stops.
C24_Guard == status = "run" => Nesting <= MaxDepth - 2

\* the same for the macro that calls itself alone
C24_GuardMacro == status = "run" => Len(macrostack) <= MaxDepth - 2

(***************************************************************************)
(* The scope a property is bound in                                        *)
(***************************************************************************)
NextScope ==
    \/ VisitElement(PoolScope, EvalElement)
    \/ VisitProperty(PoolScope, GrabProperty)
    \/ VisitMacro(PoolScope, GrabMacro)
    \/ VisitCall(PoolScope, MacroCall)
    \/ VisitInclude(PoolScope, ProcessInclude)
    \/ LeaveArgs(ArgsDone)
    \/ LeaveBody(BodyExit)
    \/ LeaveInclude(IncludeExit)
    \/ Finish

SpecScope == Init /\ [][NextScope]_vars

\* the step visits a property with a value and the given scope
WritesIn(n, scope) ==
    /\ n.k = "property"
    /\ n.value # None
    /\ n.scope = Some(scope)

\* the scope of the eval_all call that visits the node
Current == frames[Len(frames)].symbols

\* the parent of the current scope; seen from a macro's scope, the first
\* scope above it that is no namespace
ParentScope ==
    LET up == tabs[Current].parent
    IN  IF tabs[Current].kind = "Table" /\ tabs[up].kind = "NameSpace"
        THEN SkipNameSpaces(tabs, up)
        ELSE up

\* the value is evaluated at once and bound in the parent of the current
\* scope, when that is no root
ParentStep ==
    LET n == last'.n IN
        (last'.k = "property" /\ WritesIn(n, <<"parent">>)
            /\ tabs[Current].parent # Root) =>
            LET v == EagerValue(n.value[1], Current, WorldOf(St))
            IN  /\ v.ok
                /\ status' = "run"
                /\ n.name \in DOMAIN tabs'[ParentScope].d
                /\ tabs'[ParentScope].d[n.name] = v.val
                /\ n.name \notin tabs'[ParentScope].unevaluated
                /\ \A T \in 1..Len(tabs) : T # ParentScope => tabs'[T] = tabs[T]

\* in the scope of the input document the directive stores nothing, raises
\* no error, and the processing continues
ParentAtTop ==
    LET n == last'.n IN
        (last'.k = "property" /\ WritesIn(n, <<"parent">>)
            /\ tabs[Current].parent = Root) =>
            /\ status' = "run"
            /\ last'.raised = NoErr
            /\ tabs' = tabs

\* C27: a property directive with scope="parent" evaluates its value
\* eagerly and binds the name in the parent of the current scope, skipping
\* namespace scopes when it is issued from a macro's scope; issued in the
\* scope of the top-level document, whose only parent is the root, it
\* stores nothing, raises no error, and processing continues.
C27_Parent == [][ParentStep /\ ParentAtTop]_vars

\* the first half of C27 alone: bound eagerly in the parent scope
C27_ParentBound == [][ParentStep]_vars

\* the macro sp of the namespace n has bound a in the scope of the input
\* document, above the namespace
C27_WitnessSkip ==
    /\ last.k = "property"
    /\ WritesIn(last.n, <<"parent">>)
    /\ status = "run"
    /\ frames[Len(frames)].kind = "body"
    /\ tabs[tabs[Current].parent].kind = "NameSpace"
    /\ <<"a">> \notin DOMAIN tabs[tabs[Current].parent].d
    /\ tabs[tabs[tabs[Current].parent].parent].parent = Root
    /\ <<"a">> \in DOMAIN tabs[tabs[tabs[Current].parent].parent].d
    /\ tabs[tabs[tabs[Current].parent].parent].d[<<"a">>] = IntV(4)

\* the document included as the namespace n has bound c, evaluated, in the
\* scope of the input document
C27_WitnessNameSpace ==
    /\ last.k = "property"
    /\ WritesIn(last.n, <<"parent">>)
    /\ status = "run"
    /\ tabs[Current].kind = "NameSpace"
    /\ tabs[tabs[Current].parent].parent = Root
    /\ <<"c">> \in DOMAIN tabs[tabs[Current].parent].d
    /\ tabs[tabs[Current].parent].d[<<"c">>] = IntV(2)
    /\ <<"c">> \notin tabs[tabs[Current].parent].unevaluated

\* in the scope of the input document the directive has failed
C27_WitnessTop ==
    /\ last.k = "property"
    /\ WritesIn(last.n, <<"parent">>)
    /\ Len(frames) = 1
    /\ status = "failed"
    /\ err.cls = "AttributeError"

(***************************************************************************)
(* The root scope                                                          *)
(***************************************************************************)
\* the scope a property directive with a value writes to
WrittenScope(n) ==
    IF n.scope = Some(<<"global">>) THEN Top(tabs, Current)
    ELSE IF n.scope = Some(<<"parent">>) THEN ParentScope
    ELSE Current

\* the step writes a name that the root binds
WritesRootName ==
    /\ last'.k = "property"
    /\ last'.n.value # None
    /\ last'.n.name \in DOMAIN tabs[Root].d

\* the write has made a binding in a scope that is no root, and a lookup
\* from that scope returns the new value
Shadowed(n) ==
    LET T == WrittenScope(n)
        v == EagerValue(n.value[1], Current, WorldOf(St))
        r == GetItem(T, n.name, World(tabs', filestack', all_includes', subst_args',
                                      launchfile'))
    IN  /\ status' = "run"
        /\ T # Root
        /\ n.name \in DOMAIN tabs'[T].d
        /\ r.ok /\ v.ok /\ r.val = v.val

\* C25: no step changes the bindings of the root scope, and a property
\* directive that writes a name bound by the root, in the local, the
\* parent or the global scope, proceeds by binding the name in a scope
\* that is no root, after which a lookup from that scope returns the new
\* value.
C25_RootProtected ==
    [][/\ tabs'[Root] = tabs[Root]
       /\ WritesRootName => Shadowed(last'.n)]_vars

\* the bindings of the root scope never change
C25_RootFixed == [][tabs'[Root] = tabs[Root]]_vars

\* the same write where the written scope is no root
C25_ShadowInTable ==
    [][(WritesRootName /\ WrittenScope(last'.n) # Root) => Shadowed(last'.n)]_vars

\* load_yaml was bound to 6 in the scope of the input document by a macro
C25_WitnessGlobal ==
    /\ last.k = "property"
    /\ last.n.scope = Some(<<"global">>)
    /\ frames[Len(frames)].kind = "body"
    /\ status = "run"
    /\ tabs[2].d[<<"load_yaml">>] = IntV(6)
    /\ tabs[Root] = RootDict

(***************************************************************************)
(* The boolean values of conditions                                        *)
(***************************************************************************)
NextBool ==
    \/ VisitConditional(PoolBool, Conditional)
    \/ LeaveConditional(ConditionalExit)
    \/ VisitElement(PoolBool, EvalElement)
    \/ Finish

SpecBool == Init /\ [][NextBool]_vars

\* a conditional step on one of the given condition texts, which evaluate
\* to themselves, takes the text for the given boolean
BoolStep(texts, truth) ==
    (last'.k = "cond" /\ last'.n.value \in texts) =>
        /\ last'.raised = NoErr
        /\ IF (last'.n.tag = "if") = truth
           THEN Kept(last'.n, Taken.frames, frames')
           ELSE Dropped(Taken.frames, frames')

\* a conditional step on a text that is no boolean expression raises
BadStep ==
    (last'.k = "cond" /\ last'.n.value \in BoolBad) =>
        /\ status' = "failed"
        /\ last'.raised = Xacro("conditional", last'.n.value)

\* C26: get_boolean_value maps the evaluated condition values "true", "1"
\* and "1.0" to True and "false", "0" and "0.0" to False, so that xacro:if
\* with value "1.0" keeps its children and with value "0.0" drops them,
\* and raises for values that are no boolean expressions.
C26_Boolean ==
    [][BoolStep(BoolTrue, TRUE) /\ BoolStep(BoolFalse, FALSE) /\ BadStep]_vars

\* the same without the texts 1.0 and 0.0
C26_Integers ==
    [][/\ BoolStep(BoolTrue \ {<<"1", ".", "0">>}, TRUE)
       /\ BoolStep(BoolFalse \ {<<"0", ".", "0">>}, FALSE)
       /\ BadStep]_vars

\* the texts 1.0 and 0.0 raise as the values that are no boolean
\* expressions do
C26_FloatTexts ==
    [][(last'.k = "cond" /\ last'.n.value \in {<<"1", ".", "0">>, <<"0", ".", "0">>}) =>
          /\ status' = "failed"
          /\ last'.raised = Xacro("conditional", last'.n.value)]_vars

\* xacro:if with value "1.0" has failed as a bad conditional
C26_Witness ==
    /\ last.k = "cond"
    /\ last.n = If(<<"1", ".", "0">>, <<Elem("a", <<>>, <<>>)>>)
    /\ status = "failed"
    /\ err = Xacro("conditional", <<"1", ".", "0">>)

(***************************************************************************)
(* The list of the properties being resolved                               *)
(***************************************************************************)
NextResolving ==
    \/ VisitElement(PoolResolving, EvalElement)
    \/ VisitProperty(PoolResolving, GrabProperty)
    \/ VisitMacro(PoolResolving, GrabMacro)
    \/ VisitCall(PoolResolving, MacroCall)
    \/ LeaveArgs(ArgsDone)
    \/ LeaveBody(BodyExit)
    \/ VisitInclude(PoolResolving, ProcessInclude)
    \/ LeaveInclude(IncludeExit)
    \/ Finish

SpecResolving == Init /\ [][NextResolving]_vars

\* between two steps of the walker no resolution is in progress: while
\* the processing goes on, no table holds a name in its list recursive
NoneResolving == \A T \in 1..Len(tabs) : tabs[T].recursive = <<>>

\* of these properties only s, bound to ${s}, is on a cycle: no read of
\* another property raises the error of a circular definition
OnlyCycles ==
    last'.raised.kind = "circular" =>
        /\ last'.n = Read("s")
        /\ tabs[Current].d[<<"s">>] = StrV(Ref(<<"s">>))

\* C28: a circular-definition error is raised only when the property
\* being read is on a cycle of references: whenever no resolution is in
\* progress the list recursive of every scope is empty, also after a
\* resolution that failed and whose error an optional include has
\* swallowed, and a later read of that property is evaluated again and is
\* not reported as circular.
C28_Resolving == [][(status' = "run" => NoneResolving') /\ OnlyCycles]_vars

\* the same for the steps that start with empty lists and swallow no error
C28_Unswallowed ==
    [][(NoneResolving /\ last'.caught = "none") =>
          (status' = "run" => NoneResolving') /\ OnlyCycles]_vars

\* after the optional include of fy has swallowed the failure of y, the
\* read of y in the input document is reported as circular
C28_Witness ==
    /\ last.k = "elem"
    /\ last.n = Read("y")
    /\ status = "failed"
    /\ err = Wrap(Xacro("circular", <<<<"y">>, <<"y">>>>))
    /\ tabs[2].d[<<"y">>] = StrV(BadYamlText)

(***************************************************************************)
(* The scope of an inserted block                                          *)
(***************************************************************************)
\* the innermost table on the chain of table id that binds *name or
\* **name (0: none)
RECURSIVE BlockHolder(_, _)
BlockHolder(id, name) ==
    IF <<"*", "*">> \o name \in DOMAIN tabs[id].d \/ <<"*">> \o name \in DOMAIN tabs[id].d
    THEN id
    ELSE IF tabs[id].kind = "dict" THEN 0
    ELSE BlockHolder(tabs[id].parent, name)

\* insert_block starts the evaluation of a copy of the element that the
\* innermost scope with a block of the name binds
ScopedInsertStep ==
    last'.k = "insert_block" =>
        LET n == last'.n
            T == BlockHolder(frames[Len(frames)].symbols, n.name)
            many == <<"*", "*">> \o n.name
            key == IF many \in DOMAIN tabs[T].d THEN many ELSE <<"*">> \o n.name
            f == frames'[Len(frames')]
        IN  IF T = 0
            THEN last'.raised = Xacro("undefined_block", n.name)
            ELSE /\ last'.raised = NoErr
                 /\ Len(frames') = Len(frames) + 1
                 /\ f.kind = "block"
                 /\ f.todo = tabs[T].d[key].v.kids
                 /\ f.aux.content_only = (key = many)

\* C29: insert_block uses the block binding of the innermost scope on the
\* chain that binds *name or **name: the block parameter *name of a macro
\* is inserted in the macro's body also when an enclosing scope holds a
\* block property **name.
C29_Innermost == [][ScopedInsertStep]_vars

\* in the body of twice, called with the block <c/> for its parameter *b,
\* insert_block has taken the block property **b of the input document
C29_Witness ==
    /\ last.k = "insert_block"
    /\ Len(frames) = 3
    /\ frames[2].kind = "body"
    /\ frames[3].kind = "block"
    /\ <<"*", "b">> \in DOMAIN tabs[frames[2].symbols].d
    /\ tabs[frames[2].symbols].d[<<"*", "b">>].v.tag = "c"
    /\ frames[3].aux.content_only
    /\ frames[3].todo = <<Elem("e", Ref(<<"x">>), <<>>)>>

(***************************************************************************)
(* The set unevaluated                                                     *)
(***************************************************************************)
NextUnevaluated ==
    \/ VisitElement(PoolUnevaluated, EvalElement)
    \/ VisitProperty(PoolUnevaluated, GrabProperty)
    \/ VisitMacro(PoolUnevaluated, GrabMacro)
    \/ VisitCall(PoolUnevaluated, MacroCall)
    \/ VisitInclude(PoolUnevaluated, ProcessInclude)
    \/ LeaveArgs(ArgsDone)
    \/ LeaveBody(BodyExit)
    \/ LeaveInclude(IncludeExit)
    \/ Finish

SpecUnevaluated == Init /\ [][NextUnevaluated]_vars

\* C30 as the spec states it: in every state and for every scope, each
\* identifier of the scope's set unevaluated is bound in that scope, to a
\* raw text.
C30_Bound ==
    \A T \in 2..Len(tabs) : \A key \in tabs[T].unevaluated :
        key \in DOMAIN tabs[T].d /\ IsStr(tabs[T].d[key])

\* what a scope binds of its set unevaluated, it binds to a raw text
BoundAsText(tt) ==
    \A T \in 2..Len(tt) : \A key \in tt[T].unevaluated :
        key \in DOMAIN tt[T].d => IsStr(tt[T].d[key])

\* a property directive that binds its name leaves the name in the set
\* unevaluated of the written scope only if the binding is lazy and the
\* text it stores is the text of the directive
RebindStep ==
    (last'.k = "property" /\ last'.n.value # None /\ last'.raised = NoErr) =>
        LET n == last'.n
            T == WrittenScope(n)
        IN  /\ n.name \in DOMAIN tabs'[T].d
            /\ n.name \in tabs'[T].unevaluated =>
                  /\ n.lazy_eval # Some(False) /\ n.scope = None
                  /\ tabs'[T].d[n.name] = StrV(n.value[1])

\* C30, amended: in every state and for every scope, each identifier of
\* the scope's set unevaluated that the scope binds is bound to a raw
\* text; a delete leaves the name in the set, where it has no effect while
\* the name is unbound; an insert decides anew, so that a name that was
\* deleted and is bound again is unevaluated only if the new binding is
\* lazy and stores a text.
C30_BoundAsText == [][BoundAsText(tabs') /\ RebindStep]_vars

\* the property a, bound lazily to ${b}, was removed: the input document's
\* scope does not bind a, and a is in its set unevaluated
C30_Witness ==
    /\ last.k = "property"
    /\ last.n = Remove("a")
    /\ last.raised = NoErr
    /\ <<"a">> \notin DOMAIN tabs[2].d
    /\ <<"a">> \in tabs[2].unevaluated

================================================================================
